---- MODULE Spec2Model ----
(***************************************************************************)
(* Model of the adaptive-quality / reconnection logic of lib/agora.ts, the *)
(* sign-in and pending-user migration of lib/auth.ts, and the channel      *)
(* cleanup sweep of app/api/agora/cleanup/route.ts and the direct-API      *)
(* cleanup script.  Times are in milliseconds, as in the sources.          *)
(***************************************************************************)
EXTENDS Integers, Sequences, FiniteSets, TLC

\* ---------------------------------------------------------------------------
\* Bounds of the model
\* ---------------------------------------------------------------------------
\* value of Date.now() in the initial state
StartNow == 10000
\* the clock stops advancing here
MaxNow == 17000
\* resolution of the clock
TickMs == 1000
\* suspended quality-handler continuations that may be outstanding
MaxPendingResets == 1
\* the history counter favourableRun saturates here
MaxRun == 3
\* in the sign-in model the clock advances in steps of LongTickMs up to MaxLongNow
LongTickMs == 150000
MaxLongNow == 460000
\* session tokens crypto.randomUUID() can hand out
MaxSessions == 3
\* documents an administrator creates in each subscriber-keyed collection
MaxLinkDocs == 1
\* clients AgoraRTC.createClient hands out
MaxClients == 2
\* join calls and rejoin callbacks that may be in flight together
MaxJoins == 2
\* in the rejoin model the clock advances in steps of RejoinTickMs up to MaxRejoinNow
RejoinTickMs == 750
MaxRejoinNow == 11500
\* channels in a channel-list response, users in a user-list response
MaxChannels == 2
MaxChannelUsers == 1
\* in the cleanup model the clock runs from SweepStartNow to MaxSweepNow
SweepStartNow == 3610000
SweepTickMs == 1000
MaxSweepNow == 3611000
\* in the profile look-up model the clock advances in steps of LookupTickMs
LookupTickMs == 300
MaxLookupNow == 11000
\* stream session documents in the catalogue and force-close models
MaxStreamSessions == 2
\* in the force-close model the clock runs from SweepStartNow in steps of
\* ForceCloseTickMs
ForceCloseTickMs == 100
\* tabs one browser has open on the application
MaxTabs == 2
\* in the exception model the clock advances in steps of ExceptionTickMs
ExceptionTickMs == 1000
MaxExceptionNow == 12000
MaxForceCloseNow == 3610300
\* in the heartbeat model the clock advances in steps of HeartbeatTickMs
HeartbeatTickMs == 60000
MaxHeartbeatNow == 370000

\* ---------------------------------------------------------------------------
\* Program constants
\* ---------------------------------------------------------------------------
QUALITY_CHANGE_COOLDOWN == 3000
REQUIRED_GOOD_READINGS_FOR_UPGRADE == 3
PROACTIVE_CHECK_INTERVAL == 5000
SESSION_TIMEOUT == 5 * 60 * 1000
REJOIN_DELAY == 1500
EXCEPTION_REJOIN_DELAY == 2000
PROFILE_RETRY_DELAY == 300
FORCE_CLOSE_DELAY == 100
ONE_HOUR == 60 * 60 * 1000
HEARTBEAT_INTERVAL == 60 * 1000

NoTimer == -1

Min(a, b) == IF a < b THEN a ELSE b

VARIABLES
  now,                      \* Date.now()
  \* --- AgoraManager: adaptive quality ---
  currentQuality,
  lastQualityChangeTime,
  consecutiveGoodReadings,
  lastNetworkQuality,
  networkQualityInterval,   \* due time of the 5 s interval, NoTimer if not set
  connectionState,          \* client.connectionState as seen by the wrapper
  pendingResets,            \* handlers suspended in "await updateVideoQuality"
  favourableRun,            \* history: length of the current run of favourable readings
  countedReadings,          \* history: readings counted since consecutiveGoodReadings was 0
  lastOp,                   \* history: the last quality operation handled
  changedAt,                \* history: when currentQuality last changed, NoTimer if never
  \* --- Firestore and the auth provider ---
  users,                    \* collection "users": document id -> document
  streamPermissions,        \* document id -> subscriberId, NoLink if the document is absent
  streamAssignments,
  zoomPublisherAssignments,
  authAccounts,             \* accounts of the auth provider
  nextSessionId,            \* the next value of crypto.randomUUID()
  \* --- one browser per element of Browsers ---
  localSessionId,           \* localStorage "sessionId"
  currentUser,              \* auth.currentUser
  pc,                       \* where the browser's signIn / signOut call stands
  loc,                      \* the local variables of that call
  result,                   \* what the browser's last signIn returned
  \* --- AgoraManager: join, leave, rejoin ---
  client,                   \* this.client, NoClient if null
  clientState,              \* connection state of every client created so far
  lastJoinConfig,           \* this.lastJoinConfig, NoConfig if null
  rejoinTimers,             \* due times of the pending 1500 ms timeouts, oldest first
  joins,                    \* the join calls and rejoin callbacks in flight
  leaving,                  \* a leave() call is suspended before its finally block
  nextClient,               \* the next client createClient returns
  armed,                    \* history: DISCONNECTED events seen with lastJoinConfig set
  attempts,                 \* history: rejoin callbacks run
  failedRejoins,            \* history: rejoin callbacks that ended in their catch block
  \* --- cleanup sweep ---
  sweep,                    \* where the sweep stands, and its local variables
  activeChannels,           \* the channel list the sweep received
  sweepAt,                  \* Date.now() when the sweep computed oneHourAgo
  requests,                 \* history: user-list and kick requests the sweep issued
  \* --- a getUserProfile call of the auth-state listener ---
  lookup,                   \* where the call stands, its retryCount and what it returned
  \* --- the stream catalogue a subscriber reads (lib/subscriber.ts) ---
  permissionDocs,           \* streamPermissions documents with the fields the catalogue reads
  assignmentDocs,           \* streamAssignments documents with the fields the catalogue reads
  streamSessions,           \* streamSessions documents
  avail,                    \* a getAvailableStreams call: position, what it read, its result
  \* --- a run of scripts/cleanup-agora-streams.js ---
  cleanupRun,               \* position, this.lingeringStreams, results, what it read
  \* --- the tabs of a browser (hooks/use-auth.tsx) ---
  tabs,                     \* per browser: how many tabs show the application
  \* --- the "exception" handler of AgoraManager ---
  exceptionTimers,          \* due times of the timeouts armed after exception code 17
  \* --- history of the rejoin timeouts ---
  clientChannel,            \* history: the channel each client was created for
  timerChannel,             \* history: per pending timeout, the channel whose event armed it
  slotChannel,              \* history: per running callback, the channel whose event armed it
  \* --- history of the network-quality readings ---
  steady,                   \* history: the target every reading yields from now on, "none" before
  \* --- the heartbeat of a browser (hooks/use-auth.tsx) ---
  heartbeat                 \* per browser: due time of the 60 s interval, when the page went away

qvars == <<currentQuality, lastQualityChangeTime, consecutiveGoodReadings,
           lastNetworkQuality, networkQualityInterval, connectionState,
           pendingResets, favourableRun, countedReadings, lastOp, changedAt>>

dbvars == <<users, streamPermissions, streamAssignments, zoomPublisherAssignments,
            authAccounts, nextSessionId>>

bvars == <<localSessionId, currentUser, pc, loc, result>>

avars == <<dbvars, bvars>>

rvars == <<client, clientState, lastJoinConfig, rejoinTimers, joins, leaving,
           nextClient, armed, attempts, failedRejoins>>

cvars == <<sweep, activeChannels, sweepAt, requests>>

lvars == <<lookup>>

\* the variables of the parts added after the first five
svars == <<permissionDocs, assignmentDocs, streamSessions, avail>>

fvars == <<cleanupRun>>

tvars == <<tabs>>

evars == <<exceptionTimers>>

hvars == <<steady>>

kvars == <<heartbeat>>

xvars == <<lvars, svars, fvars, tvars, evars, hvars, kvars>>

gvars == <<clientChannel, timerChannel, slotChannel>>

vars == <<now, qvars, avars, rvars, cvars, xvars, gvars>>

\* what the actions of one part of the model leave alone
restQ == <<avars, rvars, cvars, xvars, gvars>>
restA == <<qvars, rvars, cvars, xvars, gvars>>
restR == <<avars, cvars, xvars>>
restC == <<qvars, avars, rvars, xvars, gvars>>
restL == <<qvars, dbvars, bvars, rvars, cvars, svars, fvars, tvars, evars, gvars, hvars,
           kvars>>
restS == <<qvars, avars, rvars, cvars, lvars, fvars, tvars, evars, gvars, hvars, kvars>>
restF == <<qvars, avars, rvars, cvars, lvars, permissionDocs, assignmentDocs, avail,
           tvars, evars, gvars, hvars, kvars>>
restT == <<qvars, rvars, cvars, lvars, svars, fvars, evars, gvars, hvars, kvars>>
restE == <<qvars, avars, cvars, lvars, svars, fvars, tvars, gvars, hvars, kvars>>
restH == <<qvars, avars, rvars, cvars, lvars, svars, fvars, tvars, evars, gvars, kvars>>
restK == <<qvars, rvars, cvars, lvars, svars, fvars, evars, gvars, hvars>>

\* ---------------------------------------------------------------------------
\* Adaptive quality (lib/agora.ts)
\* ---------------------------------------------------------------------------
QUALITY_PRESETS == {"excellent", "good", "fair", "poor", "veryPoor"}

\* values of uplinkNetworkQuality / downlinkNetworkQuality delivered by the SDK
NetworkReadings ==
  { [uplink |-> 1, downlink |-> 0], [uplink |-> 2, downlink |-> 3],
    [uplink |-> 5, downlink |-> 4], [uplink |-> 6, downlink |-> 7],
    [uplink |-> 3, downlink |-> 8] }

ConnectionStates == {"CONNECTED", "RECONNECTING", "DISCONNECTED"}

getQualityLevel(quality) ==
  CASE quality = "excellent" -> 0
    [] quality = "good" -> 1
    [] quality = "fair" -> 2
    [] quality = "poor" -> 3
    [] quality = "veryPoor" -> 4

calculateTargetQuality(uplink, downlink) ==
  IF downlink <= 1 /\ uplink <= 1 THEN "excellent"
  ELSE IF downlink <= 3 /\ uplink <= 3 THEN "good"
  ELSE IF downlink <= 5 /\ uplink <= 5 THEN "fair"
  ELSE IF downlink <= 7 /\ uplink <= 7 THEN "poor"
  ELSE "veryPoor"

\* the cooldown test of updateVideoQuality
InCooldown == now - lastQualityChangeTime < QUALITY_CHANGE_COOLDOWN

\* variant: a downgrade bypasses the cooldown
updateVideoQualityAppliesDowngradeNow(newQuality) ==
  /\ currentQuality # newQuality
  /\ \/ getQualityLevel(newQuality) > getQualityLevel(currentQuality)
     \/ ~InCooldown

\* updateVideoQuality(newQuality) assigns currentQuality and lastQualityChangeTime
updateVideoQualityApplies(newQuality) ==
  /\ currentQuality # newQuality
  /\ ~InCooldown

\* variant: a change skipped in the cooldown starts the cooldown again
updateVideoQualityRestartsCooldown(newQuality) ==
  IF updateVideoQualityApplies(newQuality)
  THEN /\ currentQuality' = newQuality
       /\ lastQualityChangeTime' = now
       /\ changedAt' = now
  ELSE /\ lastQualityChangeTime' = IF currentQuality # newQuality THEN now
                                   ELSE lastQualityChangeTime
       /\ UNCHANGED <<currentQuality, changedAt>>

updateVideoQuality(newQuality) ==
  IF updateVideoQualityApplies(newQuality)
  THEN /\ currentQuality' = newQuality
       /\ lastQualityChangeTime' = now
       /\ changedAt' = now
  ELSE UNCHANGED <<currentQuality, lastQualityChangeTime, changedAt>>

\* value of consecutiveGoodReadings after shouldUpgradeQuality(targetQuality)
shouldUpgradeCount(targetQuality) ==
  IF getQualityLevel(targetQuality) >= getQualityLevel(currentQuality)
  THEN consecutiveGoodReadings
  ELSE consecutiveGoodReadings + 1

\* result of shouldUpgradeQuality(targetQuality)
shouldUpgradeQuality(targetQuality) ==
  /\ getQualityLevel(targetQuality) < getQualityLevel(currentQuality)
  /\ shouldUpgradeCount(targetQuality) >= REQUIRED_GOOD_READINGS_FOR_UPGRADE

\* result of shouldDowngradeQuality(targetQuality); it also zeroes the counter
shouldDowngradeQuality(targetQuality) ==
  getQualityLevel(targetQuality) > getQualityLevel(currentQuality)

\* The statement after "await this.updateVideoQuality(..)" zeroes the counter.
\* When the update returned early nothing can run in between; when it changed
\* the preset and a local track or remote user makes it wait on the SDK
\* (slow), the handler is suspended and the assignment happens on resumption.
ResetAfterUpdate(applied, slow, countBefore) ==
  IF applied /\ slow /\ pendingResets < MaxPendingResets
  THEN /\ consecutiveGoodReadings' = countBefore
       /\ pendingResets' = pendingResets + 1
  ELSE /\ consecutiveGoodReadings' = 0
       /\ pendingResets' = pendingResets

OpRecord(kind, target, applied) ==
  [kind |-> kind, from |-> currentQuality, target |-> target, applied |-> applied]

\* history: the readings that went into the counter; counted is 1 for a
\* reading that shouldUpgradeQuality counts, 0 for any other step
Counted(counted) ==
  countedReadings' = IF consecutiveGoodReadings' = 0 THEN 0
                     ELSE Min(countedReadings + counted, MaxRun)

\* enableAdvancedNetworkQualityMonitoring: registers the network-quality
\* handler and starts the 5 s interval
enableAdvancedNetworkQualityMonitoring ==
  /\ networkQualityInterval = NoTimer
  /\ networkQualityInterval' = now + PROACTIVE_CHECK_INTERVAL
  /\ UNCHANGED <<now, currentQuality, lastQualityChangeTime, consecutiveGoodReadings,
                 lastNetworkQuality, connectionState, pendingResets,
                 favourableRun, countedReadings, lastOp, changedAt, restQ>>

\* the "network-quality" event handler followed by
\* determineOptimalQualityWithSmartAdaptation(uplink, downlink)
NetworkQuality(uplink, downlink, slow) ==
  LET targetQuality == calculateTargetQuality(uplink, downlink)
      favourable == getQualityLevel(targetQuality) < getQualityLevel(currentQuality)
      run == IF favourable THEN Min(favourableRun + 1, MaxRun) ELSE 0
      applied == updateVideoQualityApplies(targetQuality)
  IN
  /\ networkQualityInterval # NoTimer
  /\ lastNetworkQuality' = [uplink |-> uplink, downlink |-> downlink]
  /\ IF shouldUpgradeQuality(targetQuality)
     THEN /\ updateVideoQuality(targetQuality)
          /\ ResetAfterUpdate(applied, slow, shouldUpgradeCount(targetQuality))
          /\ lastOp' = OpRecord("reading", targetQuality, applied)
          /\ favourableRun' = IF applied THEN 0 ELSE run
     ELSE IF shouldDowngradeQuality(targetQuality)
     THEN /\ updateVideoQuality(targetQuality)
          /\ ResetAfterUpdate(applied, slow, 0)
          /\ lastOp' = OpRecord("reading", targetQuality, applied)
          /\ favourableRun' = 0
     ELSE /\ consecutiveGoodReadings' = shouldUpgradeCount(targetQuality)
          /\ lastOp' = OpRecord("reading", targetQuality, FALSE)
          /\ favourableRun' = run
          /\ UNCHANGED <<currentQuality, lastQualityChangeTime, changedAt, pendingResets>>
  /\ Counted(IF favourable THEN 1 ELSE 0)
  /\ UNCHANGED <<now, networkQualityInterval, connectionState, restQ>>

\* a handler suspended in "await this.updateVideoQuality(..)" resumes
ResumeAfterUpdate ==
  /\ pendingResets > 0
  /\ pendingResets' = pendingResets - 1
  /\ consecutiveGoodReadings' = 0
  /\ Counted(0)
  /\ UNCHANGED <<now, currentQuality, lastQualityChangeTime, lastNetworkQuality,
                 networkQualityInterval, connectionState, favourableRun, lastOp, changedAt, restQ>>

\* performProactiveNetworkCheck, run by the 5 s interval
performProactiveNetworkCheck(slow) ==
  /\ networkQualityInterval # NoTimer
  /\ now >= networkQualityInterval
  /\ networkQualityInterval' = now + PROACTIVE_CHECK_INTERVAL
  /\ IF connectionState \in {"RECONNECTING", "DISCONNECTED"}
     THEN LET applied == updateVideoQualityApplies("veryPoor") IN
          /\ updateVideoQuality("veryPoor")
          /\ ResetAfterUpdate(applied, slow, consecutiveGoodReadings)
          /\ lastOp' = OpRecord("proactive", "veryPoor", applied)
          /\ favourableRun' = IF applied THEN 0 ELSE favourableRun
     ELSE IF connectionState = "CONNECTED" /\ consecutiveGoodReadings > 0
     THEN LET targetQuality == calculateTargetQuality(lastNetworkQuality.uplink,
                                                      lastNetworkQuality.downlink)
              applied == shouldUpgradeQuality(targetQuality)
                           /\ updateVideoQualityApplies(targetQuality)
          IN
          /\ consecutiveGoodReadings' = shouldUpgradeCount(targetQuality)
          /\ IF shouldUpgradeQuality(targetQuality)
             THEN updateVideoQuality(targetQuality)
             ELSE UNCHANGED <<currentQuality, lastQualityChangeTime, changedAt>>
          /\ lastOp' = OpRecord("proactive", targetQuality, applied)
          /\ favourableRun' = IF applied THEN 0 ELSE favourableRun
          /\ UNCHANGED pendingResets
     ELSE UNCHANGED <<currentQuality, lastQualityChangeTime, consecutiveGoodReadings,
                      pendingResets, favourableRun, lastOp, changedAt>>
  /\ Counted(0)
  /\ UNCHANGED <<now, lastNetworkQuality, connectionState, restQ>>

\* setManualQuality(quality)
setManualQuality(quality, slow) ==
  LET applied == updateVideoQualityApplies(quality) IN
  /\ updateVideoQuality(quality)
  /\ ResetAfterUpdate(applied, slow, consecutiveGoodReadings)
  /\ lastOp' = OpRecord("manual", quality, applied)
  /\ favourableRun' = IF applied THEN 0 ELSE favourableRun
  /\ Counted(0)
  /\ UNCHANGED <<now, lastNetworkQuality, networkQualityInterval, connectionState, restQ>>

\* the SDK changes client.connectionState
ConnectionStateChange(s) ==
  /\ connectionState # s
  /\ connectionState' = s
  /\ UNCHANGED <<now, currentQuality, lastQualityChangeTime, consecutiveGoodReadings,
                 lastNetworkQuality, networkQualityInterval, pendingResets,
                 favourableRun, countedReadings, lastOp, changedAt, restQ>>

\* ---------------------------------------------------------------------------
\* The clock.  A due timer runs before the clock moves on, and an SDK call a
\* handler is waiting for completes within the tick.
\* ---------------------------------------------------------------------------
TimerDue ==
  \/ networkQualityInterval # NoTimer /\ now >= networkQualityInterval

Tick ==
  /\ now + TickMs <= MaxNow
  /\ ~TimerDue
  /\ pendingResets = 0
  /\ now' = now + TickMs
  /\ UNCHANGED <<qvars, avars, rvars, cvars, xvars, gvars>>

\* the last value the clock of the quality model takes
LastNow == StartNow + ((MaxNow - StartNow) \div TickMs) * TickMs

\* the target of the reading stored last
LastTarget ==
  calculateTargetQuality(lastNetworkQuality.uplink, lastNetworkQuality.downlink)

\* From the reading handled last on, the network stays as it is: the client
\* stays connected, every reading yields the target of that reading, which is
\* better than the current preset.  The clock must still be able to run past
\* the cooldown.
Settle(targetQuality) ==
  /\ steady = "none"
  /\ networkQualityInterval # NoTimer
  /\ connectionState = "CONNECTED"
  /\ lastOp.kind = "reading"
  /\ LastTarget = targetQuality
  /\ getQualityLevel(targetQuality) < getQualityLevel(currentQuality)
  /\ lastQualityChangeTime + QUALITY_CHANGE_COOLDOWN <= LastNow
  /\ steady' = targetQuality
  /\ UNCHANGED <<now, restH>>

\* a reading the network can deliver: any before it settles, one with the
\* settled target afterwards
Delivers(uplink, downlink) ==
  steady # "none" => calculateTargetQuality(uplink, downlink) = steady

\* ---------------------------------------------------------------------------
\* Sign-in, pending-user migration, single-session rule (lib/auth.ts)
\* ---------------------------------------------------------------------------
Browsers == {"b1", "b2"}
PendingId == "pending_1"
\* the uids the auth provider hands out, in this order
AuthUidSeq == <<"uid1", "uid2">>
AuthUids == {AuthUidSeq[i] : i \in 1..Len(AuthUidSeq)}
UserDocIds == {PendingId} \cup AuthUids
Email == "sub@example.com"
Passwords == {"pw", "bad"}
Roles == {"subscriber", "publisher"}
LinkDocIds == 1..MaxLinkDocs

NoSession == 0
NoTime == -1
NoPassword == "null"
NoUser == "null"
NoLink == "none"

NoDoc == [exists |-> FALSE, email |-> "", role |-> "", displayName |-> "",
          createdAt |-> NoTime, isActive |-> FALSE, isPending |-> FALSE,
          pendingPassword |-> NoPassword, sessionId |-> NoSession,
          lastLoginAt |-> NoTime]

\* the document lib/admin.ts createUser writes for a pending user
PendingDoc(role, isActive) ==
  [exists |-> TRUE, email |-> Email, role |-> role, displayName |-> "sub",
   createdAt |-> 0, isActive |-> isActive, isPending |-> TRUE,
   pendingPassword |-> "pw", sessionId |-> NoSession, lastLoginAt |-> NoTime]

\* variant: the pending fields are copied instead of cleared
MigratedProfileStillPending(pendingUserData) ==
  [pendingUserData EXCEPT !.sessionId = NoSession, !.lastLoginAt = NoTime]

\* the userProfile object signIn builds for the migrated account
MigratedProfile(pendingUserData) ==
  [exists |-> TRUE, email |-> Email, role |-> pendingUserData.role,
   displayName |-> pendingUserData.displayName,
   createdAt |-> pendingUserData.createdAt,
   isActive |-> pendingUserData.isActive,
   isPending |-> FALSE, pendingPassword |-> NoPassword,
   sessionId |-> NoSession, lastLoginAt |-> NoTime]

NoLocals == [password |-> "", oldPendingId |-> NoUser, pendingUserData |-> NoDoc,
             uid |-> NoUser, permissions |-> {}, zoom |-> {}, retryCount |-> 0,
             branch |-> "", then |-> ""]

NoResult == [status |-> "none", path |-> ""]

\* query(usersRef, where("email", "==", email)): ids of the matching documents
UsersByEmail == {d \in UserDocIds : users[d].exists /\ users[d].email = Email}

\* query(.., where("subscriberId", "==", id)) on one of the link collections
LinksOf(collection, id) == {k \in LinkDocIds : collection[k] = id}

\* variant: the timeout is taken in seconds
isSessionExpiredSeconds(lastLoginAt) ==
  \/ lastLoginAt = NoTime
  \/ now - lastLoginAt > 5 * 60

\* isSessionExpired of signIn
isSessionExpired(lastLoginAt) ==
  \/ lastLoginAt = NoTime
  \/ now - lastLoginAt > SESSION_TIMEOUT

Return(b, status, path) ==
  /\ pc' = [pc EXCEPT ![b] = "idle"]
  /\ loc' = [loc EXCEPT ![b] = NoLocals]
  /\ result' = [result EXCEPT ![b] = [status |-> status, path |-> path]]

\* signIn up to the first query: getDocs(users where email == ..), then the
\* test for a pending user with the supplied password
SignInStart(b, password) ==
  /\ pc[b] = "idle"
  /\ \/ /\ UsersByEmail = {}
        /\ pc' = [pc EXCEPT ![b] = "authSignIn"]
        /\ loc' = [loc EXCEPT ![b] = [NoLocals EXCEPT !.password = password]]
     \/ \E d \in UsersByEmail :
          IF users[d].isPending /\ users[d].pendingPassword = password
          THEN /\ pc' = [pc EXCEPT ![b] = "createAuth"]
               /\ loc' = [loc EXCEPT ![b] = [NoLocals EXCEPT !.password = password,
                                               !.oldPendingId = d,
                                               !.pendingUserData = users[d]]]
          ELSE /\ pc' = [pc EXCEPT ![b] = "authSignIn"]
               /\ loc' = [loc EXCEPT ![b] = [NoLocals EXCEPT !.password = password]]
  /\ result' = [result EXCEPT ![b] = NoResult]
  /\ UNCHANGED <<now, dbvars, localSessionId, currentUser, restA>>

\* variant: the provider accepts a second account for the e-mail address
EmailInUseNever == FALSE

\* createUserWithEmailAndPassword rejects with auth/email-already-in-use
EmailInUse == \E a \in authAccounts : a.email = Email

\* createUserWithEmailAndPassword(auth, email, password)
CreateAuthUser(b) ==
  /\ pc[b] = "createAuth"
  /\ IF EmailInUse
     THEN \* caught at the end of signIn
          /\ Return(b, "error", "migrate")
          /\ UNCHANGED <<authAccounts, currentUser>>
     ELSE \E u \in AuthUids :
          /\ Cardinality(authAccounts) < Len(AuthUidSeq)
          /\ u = AuthUidSeq[Cardinality(authAccounts) + 1]
          /\ authAccounts' = authAccounts \cup
               {[email |-> Email, uid |-> u, password |-> loc[b].password]}
          /\ currentUser' = [currentUser EXCEPT ![b] = u]
          /\ pc' = [pc EXCEPT ![b] = "readPermissions"]
          /\ loc' = [loc EXCEPT ![b].uid = u]
          /\ UNCHANGED result
  /\ UNCHANGED <<now, users, streamPermissions, streamAssignments,
                 zoomPublisherAssignments, nextSessionId, localSessionId, restA>>

\* getDocs(streamPermissions where subscriberId == oldPendingId)
ReadPermissions(b) ==
  /\ pc[b] = "readPermissions"
  /\ loc' = [loc EXCEPT ![b].permissions = LinksOf(streamPermissions, loc[b].oldPendingId)]
  /\ pc' = [pc EXCEPT ![b] = "readZoom"]
  /\ UNCHANGED <<now, dbvars, localSessionId, currentUser, result, restA>>

\* getDocs(zoomPublisherAssignments where subscriberId == oldPendingId)
ReadZoomAssignments(b) ==
  /\ pc[b] = "readZoom"
  /\ loc' = [loc EXCEPT ![b].zoom = LinksOf(zoomPublisherAssignments, loc[b].oldPendingId)]
  /\ pc' = [pc EXCEPT ![b] = "migrateLinks"]
  /\ UNCHANGED <<now, dbvars, localSessionId, currentUser, result, restA>>

\* variant: the permission updates are not waited for and have not been applied
MigratedPermissionsNotApplied(b) == streamPermissions

\* the collections signIn rewrites: subscriberId := newAuthUid on the
\* documents of the two snapshots
MigratedPermissions(b) ==
  [k \in LinkDocIds |-> IF k \in loc[b].permissions THEN loc[b].uid
                        ELSE streamPermissions[k]]

MigratedZoomAssignments(b) ==
  [k \in LinkDocIds |-> IF k \in loc[b].zoom THEN loc[b].uid
                        ELSE zoomPublisherAssignments[k]]

MigratedAssignments(b) == streamAssignments

\* await Promise.all(permissionUpdates)
MigrateLinks(b) ==
  /\ pc[b] = "migrateLinks"
  /\ streamPermissions' = MigratedPermissions(b)
  /\ zoomPublisherAssignments' = MigratedZoomAssignments(b)
  /\ streamAssignments' = MigratedAssignments(b)
  /\ pc' = [pc EXCEPT ![b] = "setProfile"]
  /\ UNCHANGED <<now, users, authAccounts, nextSessionId, localSessionId,
                 currentUser, loc, result, restA>>

\* setDoc(doc(db, "users", newAuthUid), userProfile)
SetProfile(b) ==
  /\ pc[b] = "setProfile"
  /\ users' = [users EXCEPT ![loc[b].uid] = MigratedProfile(loc[b].pendingUserData)]
  /\ pc' = [pc EXCEPT ![b] =
              IF loc[b].pendingUserData.role = "subscriber"
              THEN "setSession" ELSE "deletePending"]
  /\ UNCHANGED <<now, streamPermissions, streamAssignments, zoomPublisherAssignments,
                 authAccounts, nextSessionId, localSessionId, currentUser, loc,
                 result, restA>>

\* updateDoc(userRef, {sessionId, lastLoginAt: new Date()}) followed by
\* localStorage.setItem("sessionId", sessionId); userRef must exist
\* variant: the new session id is written to the document only
WriteNewSessionDocOnly(b, uid) ==
  /\ users[uid].exists
  /\ nextSessionId <= MaxSessions
  /\ users' = [users EXCEPT ![uid].sessionId = nextSessionId,
                            ![uid].lastLoginAt = now]
  /\ localSessionId' = localSessionId
  /\ nextSessionId' = nextSessionId + 1

\* crypto.randomUUID(), updateDoc {sessionId, lastLoginAt}, localStorage.setItem
WriteNewSession(b, uid) ==
  /\ users[uid].exists
  /\ nextSessionId <= MaxSessions
  /\ users' = [users EXCEPT ![uid].sessionId = nextSessionId,
                            ![uid].lastLoginAt = now]
  /\ localSessionId' = [localSessionId EXCEPT ![b] = nextSessionId]
  /\ nextSessionId' = nextSessionId + 1

\* the session of a migrated subscriber (auth.ts 96-109)
SetSession(b) ==
  /\ pc[b] = "setSession"
  /\ WriteNewSession(b, loc[b].uid)
  /\ pc' = [pc EXCEPT ![b] = "deletePending"]
  /\ UNCHANGED <<now, streamPermissions, streamAssignments, zoomPublisherAssignments,
                 authAccounts, currentUser, loc, result, restA>>

\* the users collection after deleteDoc(doc(db, "users", oldPendingId))
\* variant: the pending document is left in place
WithoutPendingKept(b) == users

WithoutPending(b) == [users EXCEPT ![loc[b].oldPendingId] = NoDoc]

DeletePending(b) ==
  /\ pc[b] = "deletePending"
  /\ users' = WithoutPending(b)
  /\ pc' = [pc EXCEPT ![b] = "delay"]
  /\ UNCHANGED <<now, streamPermissions, streamAssignments, zoomPublisherAssignments,
                 authAccounts, nextSessionId, localSessionId, currentUser, loc,
                 result, restA>>

\* the 500 ms delay, then return {user: authResult.user, error: null}
FinishMigration(b) ==
  /\ pc[b] = "delay"
  /\ Return(b, "ok", "migrate")
  /\ UNCHANGED <<now, dbvars, localSessionId, currentUser, restA>>

\* variant: the catch block removes the users document the call wrote
UsersAfterCatchRollback(b) == [users EXCEPT ![loc[b].uid] = NoDoc]

\* catch (error) { return { user: null, error: error.message } } writes nothing
UsersAfterCatch(b) == users

\* one of the Firestore calls of the pending branch rejects and signIn ends
\* in its catch block; when Promise.all(permissionUpdates) rejects, the
\* updates in done have been applied and at least one other has not
MigrationCallFails(b) ==
  /\ pc[b] \in {"readPermissions", "readZoom", "migrateLinks", "setProfile",
                "setSession", "deletePending"}
  /\ IF pc[b] = "migrateLinks"
     THEN \E done \in SUBSET (loc[b].permissions \cup {k + MaxLinkDocs : k \in loc[b].zoom}) :
            /\ done # loc[b].permissions \cup {k + MaxLinkDocs : k \in loc[b].zoom}
            /\ streamPermissions' =
                 [k \in LinkDocIds |-> IF k \in done THEN loc[b].uid
                                       ELSE streamPermissions[k]]
            /\ zoomPublisherAssignments' =
                 [k \in LinkDocIds |-> IF k + MaxLinkDocs \in done THEN loc[b].uid
                                       ELSE zoomPublisherAssignments[k]]
     ELSE UNCHANGED <<streamPermissions, zoomPublisherAssignments>>
  /\ users' = UsersAfterCatch(b)
  /\ Return(b, "error", "migrateFailed")
  /\ UNCHANGED <<now, streamAssignments, authAccounts, nextSessionId, localSessionId,
                 currentUser, restA>>

\* signInWithEmailAndPassword(auth, email, password)
\* variant: any password is accepted for an existing account
AccountsAcceptingAny(password) == {a \in authAccounts : a.email = Email}

\* the accounts signInWithEmailAndPassword accepts the credential for
AccountsAccepting(password) ==
  {a \in authAccounts : a.email = Email /\ a.password = password}

AuthSignIn(b) ==
  /\ pc[b] = "authSignIn"
  /\ IF AccountsAccepting(loc[b].password) # {}
     THEN LET a == CHOOSE a \in AccountsAccepting(loc[b].password) : TRUE
          IN /\ currentUser' = [currentUser EXCEPT ![b] = a.uid]
             /\ pc' = [pc EXCEPT ![b] = "getProfile"]
             /\ loc' = [loc EXCEPT ![b].uid = a.uid, ![b].then = "session"]
             /\ UNCHANGED result
     ELSE \* auth/invalid-credential, caught at the end of signIn
          /\ Return(b, "error", "normal")
          /\ UNCHANGED currentUser
  /\ UNCHANGED <<now, dbvars, localSessionId, restA>>

\* variant: the retry test lets a fourth retry through
MayRetryOnceMore(retryCount) == retryCount <= 3

\* if (retryCount < 3) of getUserProfile, in its try and in its catch block
MayRetry(retryCount) == retryCount < 3

\* the branch signIn takes on the profile it read (auth.ts 128-182)
SessionBranch(b, userProfile) ==
  IF ~(userProfile.exists /\ userProfile.role = "subscriber") THEN "none"
  ELSE IF userProfile.sessionId = NoSession THEN "new"
  ELSE IF localSessionId[b] # NoSession /\ localSessionId[b] = userProfile.sessionId
       THEN "same"
  ELSE IF isSessionExpired(userProfile.lastLoginAt) THEN "expired"
  ELSE "reject"

\* one getDoc of getUserProfile(uid, retryCount), called by signIn
GetUserProfile(b) ==
  /\ pc[b] = "getProfile"
  /\ loc[b].then = "session"
  /\ LET userProfile == users[loc[b].uid]
         exhausted == ~MayRetry(loc[b].retryCount)
         branch == SessionBranch(b, userProfile)
     IN
     IF ~userProfile.exists /\ ~exhausted
     THEN /\ loc' = [loc EXCEPT ![b].retryCount = loc[b].retryCount + 1]
          /\ UNCHANGED <<pc, result>>
     ELSE IF branch = "none"
     THEN Return(b, "ok", "normal")
     ELSE /\ loc' = [loc EXCEPT ![b].branch = branch]
          /\ pc' = [pc EXCEPT ![b] = IF branch = "reject" THEN "rejectSignOut"
                                      ELSE "writeSession"]
          /\ UNCHANGED result
  /\ UNCHANGED <<now, dbvars, localSessionId, currentUser, restA>>

\* the updateDoc of the branch taken, then return {user: result.user, error: null}
WriteSession(b) ==
  /\ pc[b] = "writeSession"
  /\ IF ~users[loc[b].uid].exists
     THEN \* updateDoc of a missing document throws
          /\ Return(b, "error", "normal")
          /\ UNCHANGED <<users, localSessionId, nextSessionId>>
     ELSE /\ IF loc[b].branch = "same"
             THEN /\ users' = [users EXCEPT ![loc[b].uid].lastLoginAt = now]
                  /\ UNCHANGED <<localSessionId, nextSessionId>>
             ELSE WriteNewSession(b, loc[b].uid)
          /\ Return(b, "ok", loc[b].branch)
  /\ UNCHANGED <<now, streamPermissions, streamAssignments, zoomPublisherAssignments,
                 authAccounts, currentUser, restA>>

\* await firebaseSignOut(auth); return {user: null, error: "..already logged in.."}
RejectSignOut(b) ==
  /\ pc[b] = "rejectSignOut"
  /\ currentUser' = [currentUser EXCEPT ![b] = NoUser]
  /\ Return(b, "error", "reject")
  /\ UNCHANGED <<now, dbvars, localSessionId, restA>>

\* signOut: localStorage.removeItem("sessionId"), then the profile lookup
SignOutStart(b) ==
  /\ pc[b] = "idle"
  /\ localSessionId' = [localSessionId EXCEPT ![b] = NoSession]
  /\ IF currentUser[b] # NoUser
     THEN /\ pc' = [pc EXCEPT ![b] = "getProfile"]
          /\ loc' = [loc EXCEPT ![b] = [NoLocals EXCEPT !.uid = currentUser[b],
                                          !.then = "signOut"]]
     ELSE /\ pc' = [pc EXCEPT ![b] = "authSignOut"]
          /\ loc' = [loc EXCEPT ![b] = [NoLocals EXCEPT !.then = "signOut"]]
  /\ UNCHANGED <<now, dbvars, currentUser, result, restA>>

\* one getDoc of getUserProfile(uid, retryCount), called by signOut
GetUserProfileForSignOut(b) ==
  /\ pc[b] = "getProfile"
  /\ loc[b].then = "signOut"
  /\ LET userProfile == users[loc[b].uid]
         exhausted == ~(loc[b].retryCount < 3)
     IN
     IF ~userProfile.exists /\ ~exhausted
     THEN /\ loc' = [loc EXCEPT ![b].retryCount = loc[b].retryCount + 1]
          /\ UNCHANGED pc
     ELSE /\ pc' = [pc EXCEPT ![b] =
                      IF userProfile.exists /\ userProfile.role = "subscriber"
                      THEN "clearSession" ELSE "authSignOut"]
          /\ UNCHANGED loc
  /\ UNCHANGED <<now, dbvars, localSessionId, currentUser, result, restA>>

\* updateDoc(userRef, {sessionId: null}) of signOut
ClearSession(b) ==
  /\ pc[b] = "clearSession"
  /\ IF users[loc[b].uid].exists
     THEN /\ users' = [users EXCEPT ![loc[b].uid].sessionId = NoSession]
          /\ pc' = [pc EXCEPT ![b] = "authSignOut"]
          /\ UNCHANGED loc
     ELSE \* updateDoc throws: signOut returns {error} without firebaseSignOut
          /\ pc' = [pc EXCEPT ![b] = "idle"]
          /\ loc' = [loc EXCEPT ![b] = NoLocals]
          /\ UNCHANGED users
  /\ UNCHANGED <<now, streamPermissions, streamAssignments, zoomPublisherAssignments,
                 authAccounts, nextSessionId, localSessionId, currentUser, result,
                 restA>>

\* await firebaseSignOut(auth) of signOut
AuthSignOut(b) ==
  /\ pc[b] = "authSignOut"
  /\ currentUser' = [currentUser EXCEPT ![b] = NoUser]
  /\ pc' = [pc EXCEPT ![b] = "idle"]
  /\ loc' = [loc EXCEPT ![b] = NoLocals]
  /\ UNCHANGED <<now, dbvars, localSessionId, result, restA>>

\* ids the administrator's subscriber list offers (getUsersByRole("subscriber"))
\* addDoc creates a document with a new id: the first unused one
NewLinkDoc(collection, k) ==
  /\ collection[k] = NoLink
  /\ \A j \in LinkDocIds : j < k => collection[j] # NoLink

SubscriberIds == {d \in UserDocIds : users[d].exists /\ users[d].role = "subscriber"}

\* lib/admin.ts createStreamPermission for one of the listed subscribers
createStreamPermission(k, subscriberId) ==
  /\ NewLinkDoc(streamPermissions, k)
  /\ subscriberId \in SubscriberIds
  /\ streamPermissions' = [streamPermissions EXCEPT ![k] = subscriberId]
  /\ UNCHANGED <<now, users, streamAssignments, zoomPublisherAssignments,
                 authAccounts, nextSessionId, bvars, restA>>

\* lib/admin.ts createStreamAssignment for one of the listed subscribers
createStreamAssignment(k, subscriberId) ==
  /\ NewLinkDoc(streamAssignments, k)
  /\ subscriberId \in SubscriberIds
  /\ streamAssignments' = [streamAssignments EXCEPT ![k] = subscriberId]
  /\ UNCHANGED <<now, users, streamPermissions, zoomPublisherAssignments,
                 authAccounts, nextSessionId, bvars, restA>>

\* a zoomPublisherAssignments document appears for one of the subscribers
\* (the collection is only read in this repository)
AddZoomPublisherAssignment(k, subscriberId) ==
  /\ NewLinkDoc(zoomPublisherAssignments, k)
  /\ subscriberId \in SubscriberIds
  /\ zoomPublisherAssignments' = [zoomPublisherAssignments EXCEPT ![k] = subscriberId]
  /\ UNCHANGED <<now, users, streamPermissions, streamAssignments,
                 authAccounts, nextSessionId, bvars, restA>>

\* the clock of the sign-in model
TickLong ==
  /\ now + LongTickMs <= MaxLongNow
  /\ now' = now + LongTickMs
  /\ UNCHANGED <<qvars, avars, rvars, cvars, xvars, gvars>>

\* ---------------------------------------------------------------------------
\* Tabs and the administrator's logout of everybody
\* (hooks/use-auth.tsx, lib/admin.ts)
\* ---------------------------------------------------------------------------
\* no signIn or signOut call is in flight
Quiet == \A b \in Browsers : pc[b] = "idle"

\* the effects for subscribers are set up: user and a subscriber userProfile
SubscriberEffects(b) ==
  /\ currentUser[b] # NoUser
  /\ users[currentUser[b]].exists
  /\ users[currentUser[b]].role = "subscriber"

\* the user opens the application in one more tab of a browser
OpenTab(b) ==
  /\ Quiet
  /\ tabs[b] < MaxTabs
  /\ tabs' = [tabs EXCEPT ![b] = tabs[b] + 1]
  /\ UNCHANGED <<now, dbvars, bvars, restT>>

\* one of several tabs is closed: beforeunload and pagehide remove the
\* sessionId from localStorage and send updateDoc({sessionId: null}), which
\* the unloading page may or may not get through
CloseTab(b, sent) ==
  /\ Quiet
  /\ tabs[b] >= 2
  /\ SubscriberEffects(b)
  /\ tabs' = [tabs EXCEPT ![b] = tabs[b] - 1]
  /\ localSessionId' = [localSessionId EXCEPT ![b] = NoSession]
  /\ users' = IF sent
              THEN [users EXCEPT ![currentUser[b]].sessionId = NoSession]
              ELSE users
  /\ UNCHANGED <<now, streamPermissions, streamAssignments, zoomPublisherAssignments,
                 authAccounts, nextSessionId, currentUser, pc, loc, result, restT>>

\* lib/admin.ts logoutAllUsers: sessionId: null in every document that has one
logoutAllUsers ==
  /\ Quiet
  /\ users' = [d \in UserDocIds |->
                 IF users[d].exists /\ users[d].sessionId # NoSession
                 THEN [users[d] EXCEPT !.sessionId = NoSession]
                 ELSE users[d]]
  /\ UNCHANGED <<now, streamPermissions, streamAssignments, zoomPublisherAssignments,
                 authAccounts, nextSessionId, bvars, tabs, restT>>

\* ---------------------------------------------------------------------------
\* The heartbeat that keeps a subscriber's session alive (hooks/use-auth.tsx)
\* ---------------------------------------------------------------------------
NoHeartbeat == [due |-> NoTimer, stoppedAt |-> NoTime, uid |-> NoUser]

\* the page of browser b is open
PageOpen(b) == tabs[b] > 0

\* the effect with the interval is set up: user and a subscriber userProfile
HeartbeatWanted(b) == PageOpen(b) /\ SubscriberEffects(b)

\* the effect runs: setInterval(updateActivity, 60 * 1000)
StartHeartbeat(b) ==
  /\ HeartbeatWanted(b)
  /\ heartbeat[b].due = NoTimer
  /\ heartbeat' = [heartbeat EXCEPT ![b] =
                     [due |-> now + HEARTBEAT_INTERVAL, stoppedAt |-> NoTime,
                      uid |-> currentUser[b]]]
  /\ UNCHANGED <<now, avars, tabs, restK>>

\* the cleanup of the effect after user or userProfile went: clearInterval
StopHeartbeat(b) ==
  /\ PageOpen(b)
  /\ ~SubscriberEffects(b)
  /\ heartbeat[b].due # NoTimer
  /\ heartbeat' = [heartbeat EXCEPT ![b].due = NoTimer, ![b].stoppedAt = now]
  /\ UNCHANGED <<now, avars, tabs, restK>>

\* updateActivity, run by the interval: updateDoc(userRef, {lastLoginAt});
\* the snapshot of the write makes the effect set the interval up again
updateActivity(b) ==
  /\ HeartbeatWanted(b)
  /\ heartbeat[b].due # NoTimer
  /\ now >= heartbeat[b].due
  /\ users' = [users EXCEPT ![currentUser[b]].lastLoginAt = now]
  /\ heartbeat' = [heartbeat EXCEPT ![b].due = now + HEARTBEAT_INTERVAL]
  /\ UNCHANGED <<now, streamPermissions, streamAssignments, zoomPublisherAssignments,
                 authAccounts, nextSessionId, bvars, tabs, restK>>

\* the browser of b goes away without its unload handlers getting to run (it
\* is killed, or the machine goes to sleep): the interval stops
BrowserGone(b) ==
  /\ Quiet
  /\ PageOpen(b)
  /\ heartbeat[b].due # NoTimer
  /\ tabs' = [tabs EXCEPT ![b] = 0]
  /\ heartbeat' = [heartbeat EXCEPT ![b].due = NoTimer, ![b].stoppedAt = now]
  /\ UNCHANGED <<now, avars, restK>>

\* the set-up or the cleanup of the effect is waiting to run
EffectPending(b) ==
  \/ HeartbeatWanted(b) /\ heartbeat[b].due = NoTimer
  \/ PageOpen(b) /\ ~SubscriberEffects(b) /\ heartbeat[b].due # NoTimer

\* an effect is waiting to run or an interval is due
HeartbeatWork(b) ==
  \/ EffectPending(b)
  \/ heartbeat[b].due # NoTimer /\ now >= heartbeat[b].due

\* no call is under way and React has run the effects of the last render
Settled == Quiet /\ \A b \in Browsers : ~EffectPending(b)

\* the clock of the heartbeat model: a signIn call settles and
\* effects and due intervals run before the clock moves on
TickHeartbeat ==
  /\ now + HeartbeatTickMs <= MaxHeartbeatNow
  /\ Quiet
  /\ \A b \in Browsers : ~HeartbeatWork(b)
  /\ now' = now + HeartbeatTickMs
  /\ UNCHANGED <<qvars, avars, rvars, cvars, xvars, gvars>>

\* ---------------------------------------------------------------------------
\* getUserProfile called by the auth-state listener (lib/auth.ts, use-auth.tsx)
\* ---------------------------------------------------------------------------
IdleLookup == [pc |-> "idle", uid |-> NoUser, retryCount |-> 0, reads |-> 0,
               lastReadAt |-> NoTime, waitUntil |-> NoTime, returned |-> "none"]

\* the listener calls getUserProfile(user.uid) for a signed-in account
getUserProfile(uid) ==
  /\ lookup.pc \in {"idle", "done"}
  /\ \E a \in authAccounts : a.uid = uid
  /\ lookup' = [IdleLookup EXCEPT !.pc = "read", !.uid = uid]
  /\ UNCHANGED <<now, restL>>

\* getDoc settles: the document is there, it is missing, or the read throws
LookupRead(failed) ==
  /\ lookup.pc = "read"
  /\ LET found == ~failed /\ users[lookup.uid].exists
         counted == [lookup EXCEPT !.reads = lookup.reads + 1, !.lastReadAt = now]
     IN lookup' =
          IF found THEN [counted EXCEPT !.pc = "done", !.returned = "profile"]
          ELSE IF MayRetry(lookup.retryCount)
          THEN [counted EXCEPT !.pc = "wait",
                               !.waitUntil = now + PROFILE_RETRY_DELAY]
          ELSE [counted EXCEPT !.pc = "done", !.returned = "null"]
  /\ UNCHANGED <<now, restL>>

\* the 300 ms timeout is over: return getUserProfile(uid, retryCount + 1)
LookupRetry ==
  /\ lookup.pc = "wait"
  /\ now >= lookup.waitUntil
  /\ lookup' = [lookup EXCEPT !.pc = "read", !.retryCount = lookup.retryCount + 1]
  /\ UNCHANGED <<now, restL>>

\* time passes; a waiting call is resumed when its timeout is due
TickLookup ==
  /\ now < MaxLookupNow
  /\ IF lookup.pc = "wait" THEN now < lookup.waitUntil ELSE TRUE
  /\ now' = LET t == Min(now + LookupTickMs, MaxLookupNow)
            IN IF lookup.pc = "wait" THEN Min(t, lookup.waitUntil) ELSE t
  /\ UNCHANGED <<qvars, avars, rvars, cvars, xvars, gvars>>

\* ---------------------------------------------------------------------------
\* The streams a subscriber may watch (lib/subscriber.ts)
\* ---------------------------------------------------------------------------
Subscribers == {"sub1", "sub2"}
Publishers == {"pub1", "pub2"}
\* a query without orderBy returns its documents in the order of their ids
PermissionIds == <<"perm1">>
AssignmentIds == <<"asg1">>
AllSessionIds == <<"s1", "s2", "s3", "s4">>
StreamSessionIds == SubSeq(AllSessionIds, 1, MaxStreamSessions)

Range(f) == {f[i] : i \in DOMAIN f}

NoPermission == [exists |-> FALSE, subscriberId |-> "none", publisherId |-> "none",
                 isActive |-> FALSE]
NoAssignment == [exists |-> FALSE, subscriberId |-> "none",
                 streamSessionId |-> "none", isActive |-> FALSE]
\* streamSession: undefined
NoStreamData == [id |-> "none", publisherId |-> "none", isActive |-> FALSE]

PermissionValues ==
  {NoPermission} \cup
  [exists : {TRUE}, subscriberId : Subscribers, publisherId : Publishers,
   isActive : BOOLEAN]
AssignmentValues ==
  {NoAssignment} \cup
  [exists : {TRUE}, subscriberId : Subscribers,
   streamSessionId : Range(StreamSessionIds), isActive : BOOLEAN]

\* a stream session document created at time c
SessionDoc(publisherId, isActive, c) ==
  [publisherId |-> publisherId, isActive |-> isActive, createdAt |-> c,
   endedAt |-> NoTime, forceClosed |-> FALSE]

IdleAvail == [pc |-> "idle", subscriberId |-> "none", permissions |-> <<>>,
              assignments |-> <<>>, result |-> <<>>,
              permissionsAtRead |-> [k \in Range(PermissionIds) |-> NoPermission],
              assignmentsAtRead |-> [k \in Range(AssignmentIds) |-> NoAssignment]]

\* { id: doc.id, ...doc.data() } for the documents the query matches
Docs(ids, data, matching) ==
  LET kept == SelectSeq(ids, LAMBDA k : k \in matching)
  IN [i \in DOMAIN kept |-> [id |-> kept[i], data |-> data[kept[i]]]]

\* variant: the permissions query without its isActive condition
PermissionMatchesInactive(d, subscriberId) ==
  d.exists /\ d.subscriberId = subscriberId

\* where("subscriberId", "==", subscriberId), where("isActive", "==", true)
PermissionMatches(d, subscriberId) ==
  d.exists /\ d.subscriberId = subscriberId /\ d.isActive

AssignmentMatches(d, subscriberId) ==
  d.exists /\ d.subscriberId = subscriberId /\ d.isActive

\* query(streamsRef, where("isActive", "==", true)), as the activeStreamsMap values
ActiveStreams ==
  LET kept == Docs(StreamSessionIds, streamSessions,
                   {k \in Range(StreamSessionIds) : streamSessions[k].isActive})
  IN [i \in DOMAIN kept |->
        [id |-> kept[i].id, publisherId |-> kept[i].data.publisherId,
         isActive |-> kept[i].data.isActive]]

\* Array.from(activeStreamsMap.values()).find(s => s.publisherId === publisherId)
FindByPublisher(streams, publisherId) ==
  LET hits == SelectSeq(streams, LAMBDA st : st.publisherId = publisherId)
  IN IF hits = <<>> THEN NoStreamData ELSE Head(hits)

\* activeStreamsMap.get(streamSessionId)
GetStream(streams, streamSessionId) ==
  LET hits == SelectSeq(streams, LAMBDA st : st.id = streamSessionId)
  IN IF hits = <<>> THEN NoStreamData ELSE Head(hits)

\* permissions.map(...): every permission, with the stream of its publisher
EnrichedPermissions(permissions, streams) ==
  [i \in DOMAIN permissions |->
     [id |-> permissions[i].id,
      subscriberId |-> permissions[i].data.subscriberId,
      publisherId |-> permissions[i].data.publisherId,
      streamSession |-> FindByPublisher(streams, permissions[i].data.publisherId)]]

\* assignments.forEach(...): an entry for each assignment whose stream is found
RECURSIVE AssignmentEntries(_, _)
AssignmentEntries(assignments, streams) ==
  IF assignments = <<>> THEN <<>>
  ELSE LET a == Head(assignments)
           streamData == GetStream(streams, a.data.streamSessionId)
           rest == AssignmentEntries(Tail(assignments), streams)
       IN IF streamData # NoStreamData
          THEN <<[id |-> a.id, subscriberId |-> a.data.subscriberId,
                  publisherId |-> streamData.publisherId,
                  streamSession |-> streamData]>> \o rest
          ELSE rest

\* the first entry of every subscriberId_publisherId key
RECURSIVE UniquePermissions(_, _)
UniquePermissions(entries, seen) ==
  IF entries = <<>> THEN <<>>
  ELSE LET e == Head(entries)
           key == <<e.subscriberId, e.publisherId>>
       IN IF key \in seen THEN UniquePermissions(Tail(entries), seen)
          ELSE <<e>> \o UniquePermissions(Tail(entries), seen \cup {key})

\* permissions.filter(permission => permission.streamSession?.isActive)
AvailableStreams(entries) ==
  SelectSeq(entries, LAMBDA e : e.streamSession.isActive)

\* a subscriber page asks for its streams
getAvailableStreams(subscriberId) ==
  /\ avail.pc \in {"idle", "done"}
  /\ avail' = [IdleAvail EXCEPT !.pc = "permissions", !.subscriberId = subscriberId]
  /\ UNCHANGED <<now, restS, permissionDocs, assignmentDocs, streamSessions>>

\* the streamPermissions query settles
PermissionsRead ==
  /\ avail.pc = "permissions"
  /\ avail' = [avail EXCEPT
       !.pc = "assignments",
       !.permissions = Docs(PermissionIds, permissionDocs,
                            {k \in Range(PermissionIds) :
                               PermissionMatches(permissionDocs[k],
                                                 avail.subscriberId)}),
       !.permissionsAtRead = permissionDocs]
  /\ UNCHANGED <<now, restS, permissionDocs, assignmentDocs, streamSessions>>

\* the streamAssignments query settles
AssignmentsRead ==
  /\ avail.pc = "assignments"
  /\ avail' = [avail EXCEPT
       !.pc = "streams",
       !.assignments = Docs(AssignmentIds, assignmentDocs,
                            {k \in Range(AssignmentIds) :
                               AssignmentMatches(assignmentDocs[k],
                                                 avail.subscriberId)}),
       !.assignmentsAtRead = assignmentDocs]
  /\ UNCHANGED <<now, restS, permissionDocs, assignmentDocs, streamSessions>>

\* the users and active-streams reads settle; the rest of the call is synchronous
StreamsRead ==
  /\ avail.pc = "streams"
  /\ LET enrichedPermissions ==
           EnrichedPermissions(avail.permissions, ActiveStreams)
             \o AssignmentEntries(avail.assignments, ActiveStreams)
     IN avail' = [avail EXCEPT
          !.pc = "done",
          !.result = AvailableStreams(UniquePermissions(enrichedPermissions, {}))]
  /\ UNCHANGED <<now, restS, permissionDocs, assignmentDocs, streamSessions>>

\* one of the reads throws: getSubscriberPermissions returns []
CatalogueReadFails ==
  /\ avail.pc \in {"permissions", "assignments", "streams"}
  /\ avail' = [avail EXCEPT !.pc = "done", !.result = <<>>]
  /\ UNCHANGED <<now, restS, permissionDocs, assignmentDocs, streamSessions>>

\* the administrator switches a permission on or off
updateStreamPermission(permissionId, isActive) ==
  /\ permissionDocs[permissionId].exists
  /\ permissionDocs' = [permissionDocs EXCEPT ![permissionId].isActive = isActive]
  /\ UNCHANGED <<now, restS, assignmentDocs, streamSessions, avail>>

\* the administrator switches an assignment on or off
updateStreamAssignment(assignmentId, isActive) ==
  /\ assignmentDocs[assignmentId].exists
  /\ assignmentDocs' = [assignmentDocs EXCEPT ![assignmentId].isActive = isActive]
  /\ UNCHANGED <<now, restS, permissionDocs, streamSessions, avail>>

\* the publisher stops broadcasting: the session is closed
endStreamSession(sessionId) ==
  /\ streamSessions[sessionId].isActive
  /\ streamSessions' = [streamSessions EXCEPT ![sessionId].isActive = FALSE,
                                               ![sessionId].endedAt = now]
  /\ UNCHANGED <<now, restS, permissionDocs, assignmentDocs, avail>>

\* ---------------------------------------------------------------------------
\* The Firebase cleanup script (scripts/cleanup-agora-streams.js)
\* ---------------------------------------------------------------------------
IdleCleanupRun ==
  [pc |-> "idle", lingeringStreams |-> <<>>, next |-> 1, results |-> <<>>,
   readAt |-> NoTime, waitUntil |-> NoTime, outcome |-> "none",
   sessionsAtRead |-> [k \in Range(StreamSessionIds) |-> SessionDoc("pub1", FALSE, 0)]]

\* variant: a session created exactly one hour ago counts as lingering
isLingeringSessionInclusive(stream, oneHourAgo) ==
  stream.createdAt <= oneHourAgo

\* new Date(stream.createdAt) < oneHourAgo, createdAt being a time in ms
isLingeringSession(stream, oneHourAgo) ==
  stream.createdAt < oneHourAgo

\* main(): a new AgoraStreamCleanup runs
runCleanup ==
  /\ cleanupRun.pc \in {"idle", "done"}
  /\ cleanupRun' = [IdleCleanupRun EXCEPT !.pc = "read"]
  /\ UNCHANGED <<now, restF, streamSessions>>

\* checkActiveStreamSessions settles, checkForLingeringStreams filters
ActiveSessionsRead ==
  /\ cleanupRun.pc = "read"
  /\ LET activeStreams ==
           Docs(StreamSessionIds, streamSessions,
                {k \in Range(StreamSessionIds) : streamSessions[k].isActive})
         oneHourAgo == now - ONE_HOUR
         lingeringStreams ==
           SelectSeq(activeStreams,
                     LAMBDA st : isLingeringSession(st.data, oneHourAgo))
         read == [cleanupRun EXCEPT !.readAt = now,
                                    !.sessionsAtRead = streamSessions]
     IN cleanupRun' =
          IF activeStreams = <<>>
          THEN [read EXCEPT !.pc = "done", !.outcome = "noActive"]
          ELSE IF lingeringStreams = <<>>
          THEN [read EXCEPT !.pc = "done", !.outcome = "allRecent"]
          ELSE [read EXCEPT !.pc = "close",
                            !.lingeringStreams =
                               [i \in DOMAIN lingeringStreams |-> lingeringStreams[i].id]]
  /\ UNCHANGED <<now, restF, streamSessions>>

\* the query throws: checkActiveStreamSessions returns []
ActiveSessionsReadFails ==
  /\ cleanupRun.pc = "read"
  /\ cleanupRun' = [cleanupRun EXCEPT !.pc = "done", !.outcome = "readFailed"]
  /\ UNCHANGED <<now, restF, streamSessions>>

\* forceCloseStreamSession(stream.id) settles: the update applied or threw
forceCloseStreamSession(success) ==
  /\ cleanupRun.pc = "close"
  /\ LET sessionId == cleanupRun.lingeringStreams[cleanupRun.next]
     IN /\ streamSessions' =
             IF success
             THEN [streamSessions EXCEPT ![sessionId].isActive = FALSE,
                                         ![sessionId].endedAt = now,
                                         ![sessionId].forceClosed = TRUE]
             ELSE streamSessions
        /\ cleanupRun' = [cleanupRun EXCEPT
             !.pc = "delay",
             !.results = Append(cleanupRun.results,
                                [sessionId |-> sessionId, success |-> success]),
             !.waitUntil = now + FORCE_CLOSE_DELAY]
  /\ UNCHANGED <<now, restF>>

\* the 100 ms delay is over: the next stream, or the results
ForceCloseDelayOver ==
  /\ cleanupRun.pc = "delay"
  /\ now >= cleanupRun.waitUntil
  /\ cleanupRun' =
       IF cleanupRun.next < Len(cleanupRun.lingeringStreams)
       THEN [cleanupRun EXCEPT !.pc = "close", !.next = cleanupRun.next + 1]
       ELSE [cleanupRun EXCEPT !.pc = "done", !.outcome = "closed"]
  /\ UNCHANGED <<now, restF, streamSessions>>

TickForceClose ==
  /\ now < MaxForceCloseNow
  /\ IF cleanupRun.pc = "delay" THEN now < cleanupRun.waitUntil ELSE TRUE
  /\ now' = LET t == Min(now + ForceCloseTickMs, MaxForceCloseNow)
            IN IF cleanupRun.pc = "delay" THEN Min(t, cleanupRun.waitUntil) ELSE t
  /\ UNCHANGED <<qvars, avars, rvars, cvars, xvars, gvars>>

\* ---------------------------------------------------------------------------
\* Join, leave and the delayed rejoin (lib/agora.ts)
\* ---------------------------------------------------------------------------
Channels == {"chA", "chB"}
ClientIds == 1..MaxClients
JoinIds == 1..MaxJoins
NoClient == 0
NoConfig == "null"

IdleJoin == [pc |-> "idle", config |-> NoConfig, origin |-> "none", c |-> NoClient]

\* the first free slot for a call
FreeJoin(k) ==
  /\ joins[k].pc = "idle"
  /\ \A j \in JoinIds : j < k => joins[j].pc # "idle"

\* connection states out of which a client can become DISCONNECTED
Live == {"CONNECTING", "CONNECTED"}

\* client.leave() of the SDK changes the state of a client that is not yet
\* disconnected
LeaveChanges(c) == c # NoClient /\ clientState[c] \in Live

AfterClientLeave(c) ==
  IF LeaveChanges(c) THEN [clientState EXCEPT ![c] = "DISCONNECTED"]
  ELSE clientState

\* the "connection-state-change" handler with curState = "DISCONNECTED":
\* it returns if lastJoinConfig is null, else it arms one timeout
OnDisconnected(timers) ==
  IF lastJoinConfig = NoConfig THEN timers
  ELSE Append(timers, now + REJOIN_DELAY)

Arms == IF lastJoinConfig = NoConfig THEN 0 ELSE 1

\* the channel of the client whose event reaches the handler, kept with the
\* timeout the handler arms
ArmedFor(channels, c) ==
  IF lastJoinConfig = NoConfig THEN channels
  ELSE Append(channels, clientChannel[c])

\* variant: the catch block of the rejoin callback schedules another attempt
CatchRejoinRetries == Append(rejoinTimers, now + REJOIN_DELAY)

\* catch (e) { console.warn("Rejoin attempt failed", e) }
CatchRejoin == rejoinTimers

\* join(config) up to "await this.fetchToken"
join(config) ==
  /\ \E k \in JoinIds :
       /\ FreeJoin(k)
       /\ joins' = [joins EXCEPT ![k] = [pc |-> "fetchToken", config |-> config,
                                         origin |-> "user", c |-> NoClient]]
  /\ lastJoinConfig' = config
  /\ UNCHANGED <<now, qvars, client, clientState, rejoinTimers, leaving, nextClient,
                 armed, attempts, failedRejoins, restR, gvars>>

\* the token arrives: join creates the client, installs the handlers and
\* suspends in "await this.client?.join"
FetchTokenResolved(k) ==
  /\ joins[k].pc = "fetchToken"
  /\ nextClient <= MaxClients
  /\ client' = nextClient
  /\ nextClient' = nextClient + 1
  /\ clientState' = [clientState EXCEPT ![nextClient] = "CONNECTING"]
  /\ joins' = [joins EXCEPT ![k].pc = "clientJoin", ![k].c = nextClient]
  /\ clientChannel' = [clientChannel EXCEPT ![nextClient] = joins[k].config]
  /\ UNCHANGED <<now, qvars, lastJoinConfig, rejoinTimers, leaving, armed, attempts,
                 failedRejoins, restR, timerChannel, slotChannel>>

\* client.join resolves and join runs to its end
ClientJoinResolved(k) ==
  /\ joins[k].pc = "clientJoin"
  /\ clientState[joins[k].c] = "CONNECTING"
  /\ clientState' = [clientState EXCEPT ![joins[k].c] = "CONNECTED"]
  /\ joins' = [joins EXCEPT ![k] = IdleJoin]
  /\ UNCHANGED <<now, qvars, client, lastJoinConfig, rejoinTimers, leaving, nextClient,
                 armed, attempts, failedRejoins, restR, gvars>>

\* fetchToken or client.join rejects and join throws; a rejoin callback
\* catches the error, a caller from the UI gets it
JoinFailed(k) ==
  /\ joins[k].pc \in {"fetchToken", "clientJoin"}
  /\ clientState' = IF joins[k].pc = "clientJoin"
                    THEN [clientState EXCEPT ![joins[k].c] = "DISCONNECTED"]
                    ELSE clientState
  /\ rejoinTimers' = IF joins[k].origin = "rejoin" THEN CatchRejoin ELSE rejoinTimers
  /\ failedRejoins' = failedRejoins + (IF joins[k].origin = "rejoin" THEN 1 ELSE 0)
  /\ joins' = [joins EXCEPT ![k] = IdleJoin]
  /\ UNCHANGED <<now, qvars, client, lastJoinConfig, leaving, nextClient, armed,
                 attempts, restR, gvars>>

\* the SDK reports "connection-state-change" to DISCONNECTED on a client
Disconnected(c) ==
  /\ clientState[c] \in Live
  /\ clientState' = [clientState EXCEPT ![c] = "DISCONNECTED"]
  /\ rejoinTimers' = OnDisconnected(rejoinTimers)
  /\ armed' = armed + Arms
  /\ timerChannel' = ArmedFor(timerChannel, c)
  /\ UNCHANGED <<now, qvars, client, lastJoinConfig, joins, leaving, nextClient,
                 attempts, failedRejoins, restR, clientChannel, slotChannel>>

\* a timeout armed by the handler fires: the callback runs up to
\* "await this.client?.leave()"; the SDK may report the state change of that
\* leave to the handler
RejoinTimerFires(emits) ==
  /\ rejoinTimers # <<>>
  /\ Head(rejoinTimers) <= now
  /\ \E k \in JoinIds :
       /\ FreeJoin(k)
       /\ joins' = [joins EXCEPT ![k] = [pc |-> "afterLeave", config |-> NoConfig,
                                         origin |-> "rejoin", c |-> NoClient]]
       /\ slotChannel' = [slotChannel EXCEPT ![k] = Head(timerChannel)]
  /\ attempts' = attempts + 1
  /\ clientState' = AfterClientLeave(client)
  /\ IF LeaveChanges(client) /\ emits
     THEN /\ rejoinTimers' = OnDisconnected(Tail(rejoinTimers))
          /\ armed' = armed + Arms
          /\ timerChannel' = ArmedFor(Tail(timerChannel), client)
     ELSE /\ rejoinTimers' = Tail(rejoinTimers)
          /\ armed' = armed
          /\ timerChannel' = Tail(timerChannel)
  /\ UNCHANGED <<now, qvars, client, lastJoinConfig, leaving, nextClient,
                 failedRejoins, restR, clientChannel>>

\* the callback goes on with "await this.join(this.lastJoinConfig!)"; join
\* of null throws when it destructures its argument
RejoinJoin(k) ==
  /\ joins[k].pc = "afterLeave"
  /\ IF lastJoinConfig = NoConfig
     THEN /\ joins' = [joins EXCEPT ![k] = IdleJoin]
          /\ rejoinTimers' = CatchRejoin
          /\ failedRejoins' = failedRejoins + 1
     ELSE /\ joins' = [joins EXCEPT ![k].pc = "fetchToken",
                                    ![k].config = lastJoinConfig]
          /\ UNCHANGED <<rejoinTimers, failedRejoins>>
  /\ lastJoinConfig' = lastJoinConfig
  /\ UNCHANGED <<now, qvars, client, clientState, leaving, nextClient, armed,
                 attempts, restR, gvars>>

\* leave() up to "await this.client.leave()"
leave(emits) ==
  /\ ~leaving
  /\ leaving' = TRUE
  /\ networkQualityInterval' = NoTimer
  /\ clientState' = AfterClientLeave(client)
  /\ IF LeaveChanges(client) /\ emits
     THEN /\ rejoinTimers' = OnDisconnected(rejoinTimers)
          /\ armed' = armed + Arms
          /\ timerChannel' = ArmedFor(timerChannel, client)
     ELSE UNCHANGED <<rejoinTimers, armed, timerChannel>>
  /\ UNCHANGED <<now, currentQuality, lastQualityChangeTime, consecutiveGoodReadings,
                 lastNetworkQuality, connectionState, pendingResets, favourableRun,
                 countedReadings, lastOp, changedAt, client, lastJoinConfig, joins,
                 nextClient,
                 attempts, failedRejoins, restR, clientChannel, slotChannel>>

\* the finally block of leave()
LeaveFinally ==
  /\ leaving
  /\ leaving' = FALSE
  /\ client' = NoClient
  /\ lastJoinConfig' = NoConfig
  /\ consecutiveGoodReadings' = 0
  /\ Counted(0)
  /\ UNCHANGED <<now, currentQuality, lastQualityChangeTime, lastNetworkQuality,
                 networkQualityInterval, connectionState, pendingResets,
                 favourableRun, lastOp, changedAt, clientState, rejoinTimers, joins,
                 nextClient, armed, attempts, failedRejoins, restR, gvars>>

\* the "exception" handler: code 17 while lastJoinConfig is set arms a timeout
Exception17(c) ==
  /\ clientState[c] \in Live
  /\ lastJoinConfig # NoConfig
  /\ Len(exceptionTimers) < MaxJoins
  /\ exceptionTimers' = Append(exceptionTimers, now + EXCEPTION_REJOIN_DELAY)
  /\ UNCHANGED <<now, rvars, restE>>

\* that timeout fires: await this.join(this.lastJoinConfig!) with no leave
\* before it; join of null throws and the callback catches it
ExceptionTimerFires ==
  /\ exceptionTimers # <<>>
  /\ Head(exceptionTimers) <= now
  /\ exceptionTimers' = Tail(exceptionTimers)
  /\ IF lastJoinConfig = NoConfig
     THEN UNCHANGED joins
     ELSE \E k \in JoinIds :
            /\ FreeJoin(k)
            /\ joins' = [joins EXCEPT ![k] = [pc |-> "fetchToken",
                                              config |-> lastJoinConfig,
                                              origin |-> "exception", c |-> NoClient]]
  /\ UNCHANGED <<now, client, clientState, lastJoinConfig, rejoinTimers, leaving,
                 nextClient, armed, attempts, failedRejoins, restE>>

\* the time of the next timeout of either handler
NextDue(limit) ==
  LET r == IF rejoinTimers = <<>> THEN limit ELSE Min(limit, Head(rejoinTimers))
  IN IF exceptionTimers = <<>> THEN r ELSE Min(r, Head(exceptionTimers))

\* time passes, but not beyond the next timeout of either handler
TickException ==
  /\ now < MaxExceptionNow
  /\ NextDue(MaxExceptionNow) > now
  /\ now' = NextDue(Min(now + ExceptionTickMs, MaxExceptionNow))
  /\ UNCHANGED <<qvars, avars, rvars, cvars, xvars, gvars>>

\* time passes, but not beyond the next timeout
TickRejoin ==
  /\ now < MaxRejoinNow
  /\ IF rejoinTimers = <<>> THEN TRUE ELSE Head(rejoinTimers) > now
  /\ now' = LET t == Min(now + RejoinTickMs, MaxRejoinNow)
            IN IF rejoinTimers = <<>> THEN t ELSE Min(t, Head(rejoinTimers))
  /\ UNCHANGED <<qvars, avars, rvars, cvars, xvars, gvars>>

\* ---------------------------------------------------------------------------
\* Cleanup sweep (app/api/agora/cleanup/route.ts GET, direct-API script)
\* ---------------------------------------------------------------------------
SweepKinds == {"route", "script"}
\* channel.created of the responses, in seconds
CreatedValues == {9, 10, 3610}
ChannelData == [created : CreatedValues, userCount : 0..MaxChannelUsers]
\* a channel-list response; the channel at position i has channelName i
ChannelLists == UNION {[1..n -> ChannelData] : n \in 0..MaxChannels}
\* a user-list response
UserLists == {[i \in 1..n |-> i] : n \in 0..MaxChannelUsers}

IdleSweep == [kind |-> "none", pc |-> "idle", lingering |-> <<>>, users |-> <<>>,
              activeUsers |-> <<>>, outcome |-> "none"]

\* the sweep has ended with a result, or with an error
Ended(outcome) == [IdleSweep EXCEPT !.outcome = outcome]

\* variant: channel.created is compared without the conversion to milliseconds
isLingeringSeconds(channel, oneHourAgo) ==
  channel.created < oneHourAgo /\ channel.userCount > 0

\* the filter of GET
isLingering(channel, oneHourAgo) ==
  LET createdTime == channel.created * 1000
  IN createdTime < oneHourAgo /\ channel.userCount > 0

\* channel.userCount || 0
OrZero(userCount) == IF userCount = 0 THEN 0 ELSE userCount

\* the filter of checkForLingeringChannels
isLingeringDirect(channel, oneHourAgo) ==
  LET createdTime == channel.created * 1000
  IN createdTime < oneHourAgo /\ OrZero(channel.userCount) > 0

RECURSIVE Filter(_, _, _, _)
\* activeChannels.filter(...), as the sequence of the positions kept
Filter(kind, data, oneHourAgo, i) ==
  IF i > Len(data) THEN <<>>
  ELSE LET keep == IF kind = "route" THEN isLingering(data[i], oneHourAgo)
                   ELSE isLingeringDirect(data[i], oneHourAgo)
       IN (IF keep THEN <<i>> ELSE <<>>) \o Filter(kind, data, oneHourAgo, i + 1)

\* users.map(user => ({ ...user, channelName: channel.channelName }))
WithChannelName(userList, channelName) ==
  [i \in 1..Len(userList) |-> [uid |-> userList[i], channelName |-> channelName]]

\* the sweep starts and requests the channel list
SweepStart(kind) ==
  /\ sweep.pc = "idle"
  /\ sweep' = [IdleSweep EXCEPT !.kind = kind, !.pc = "fetchChannels"]
  /\ activeChannels' = <<>>
  /\ sweepAt' = NoTimer
  /\ requests' = {}
  /\ UNCHANGED <<now, restC>>

\* the channel list arrives and is filtered; the script stops on an empty list
ChannelsFetched ==
  /\ sweep.pc = "fetchChannels"
  /\ \E data \in ChannelLists :
       /\ activeChannels' = data
       /\ LET oneHourAgo == now - ONE_HOUR
          IN sweep' = IF sweep.kind = "script" /\ Len(data) = 0 THEN Ended("done")
                      ELSE [sweep EXCEPT
                              !.pc = "nextChannel",
                              !.lingering = Filter(sweep.kind, data, oneHourAgo, 1)]
  /\ sweepAt' = now
  /\ UNCHANGED <<now, requests, restC>>

\* the channel-list request fails: GET answers 500, the script reports no
\* active channels
ChannelsFetchFailed ==
  /\ sweep.pc = "fetchChannels"
  /\ sweep' = Ended(IF sweep.kind = "route" THEN "error" ELSE "done")
  /\ UNCHANGED <<now, activeChannels, sweepAt, requests, restC>>

\* the loop over lingeringChannels requests the users of the next channel
RequestChannelUsers ==
  /\ sweep.pc = "nextChannel"
  /\ sweep.lingering # <<>>
  /\ requests' = requests \cup
       {[op |-> "users", channelName |-> Head(sweep.lingering), uid |-> 0]}
  /\ sweep' = [sweep EXCEPT !.pc = "listUsers"]
  /\ UNCHANGED <<now, activeChannels, sweepAt, restC>>

\* the user list arrives (empty when the request failed)
UsersListed ==
  /\ sweep.pc = "listUsers"
  /\ \E userList \in UserLists :
       sweep' = IF sweep.kind = "route"
                THEN [sweep EXCEPT !.pc = "kick", !.users = userList]
                ELSE [sweep EXCEPT !.pc = "nextChannel",
                                   !.lingering = Tail(sweep.lingering),
                                   !.activeUsers = sweep.activeUsers \o
                                     WithChannelName(userList, Head(sweep.lingering))]
  /\ UNCHANGED <<now, activeChannels, sweepAt, requests, restC>>

\* GET: the loop over the users of the current channel
KickUser ==
  /\ sweep.pc = "kick"
  /\ IF sweep.users = <<>>
     THEN /\ sweep' = [sweep EXCEPT !.pc = "nextChannel",
                                    !.lingering = Tail(sweep.lingering)]
          /\ UNCHANGED requests
     ELSE /\ requests' = requests \cup
               {[op |-> "kick", channelName |-> Head(sweep.lingering),
                 uid |-> Head(sweep.users)]}
          /\ sweep' = [sweep EXCEPT !.users = Tail(sweep.users)]
  /\ UNCHANGED <<now, activeChannels, sweepAt, restC>>

\* the loop over lingeringChannels is over: GET responds, the script goes on
\* to forceDisconnectLingeringUsers
ListingDone ==
  /\ sweep.pc = "nextChannel"
  /\ sweep.lingering = <<>>
  /\ sweep' = IF sweep.kind = "script" /\ sweep.activeUsers # <<>>
              THEN [sweep EXCEPT !.pc = "kickAll"]
              ELSE Ended("done")
  /\ UNCHANGED <<now, activeChannels, sweepAt, requests, restC>>

\* forceDisconnectLingeringUsers: kickUserFromChannel for each of activeUsers
KickActiveUser ==
  /\ sweep.pc = "kickAll"
  /\ IF sweep.activeUsers = <<>>
     THEN /\ sweep' = Ended("done")
          /\ UNCHANGED requests
     ELSE /\ requests' = requests \cup
               {[op |-> "kick", channelName |-> Head(sweep.activeUsers).channelName,
                 uid |-> Head(sweep.activeUsers).uid]}
          /\ sweep' = [sweep EXCEPT !.activeUsers = Tail(sweep.activeUsers)]
  /\ UNCHANGED <<now, activeChannels, sweepAt, restC>>

TickSweep ==
  /\ now + SweepTickMs <= MaxSweepNow
  /\ now' = now + SweepTickMs
  /\ UNCHANGED <<qvars, avars, rvars, cvars, xvars, gvars>>

\* ---------------------------------------------------------------------------
\* Initial state and specifications
\* ---------------------------------------------------------------------------
NoOp == [kind |-> "none", from |-> "good", target |-> "good", applied |-> FALSE]

InitQuality ==
  /\ currentQuality = "good"
  /\ lastQualityChangeTime = 0
  /\ consecutiveGoodReadings = 0
  /\ lastNetworkQuality = [uplink |-> -1, downlink |-> -1]
  /\ networkQualityInterval = NoTimer
  /\ connectionState = "CONNECTED"
  /\ pendingResets = 0
  /\ favourableRun = 0
  /\ countedReadings = 0
  /\ lastOp = NoOp
  /\ changedAt = NoTimer

\* the database after the administrator created one pending user
InitAuth(role, isActive) ==
  /\ users = [d \in UserDocIds |->
                IF d = PendingId THEN PendingDoc(role, isActive) ELSE NoDoc]
  /\ streamPermissions = [k \in LinkDocIds |-> NoLink]
  /\ streamAssignments = [k \in LinkDocIds |-> NoLink]
  /\ zoomPublisherAssignments = [k \in LinkDocIds |-> NoLink]
  /\ authAccounts = {}
  /\ nextSessionId = 1
  /\ localSessionId = [b \in Browsers |-> NoSession]
  /\ currentUser = [b \in Browsers |-> NoUser]
  /\ pc = [b \in Browsers |-> "idle"]
  /\ loc = [b \in Browsers |-> NoLocals]
  /\ result = [b \in Browsers |-> NoResult]

\* a fresh AgoraManager
InitRejoin ==
  /\ client = NoClient
  /\ clientState = [c \in ClientIds |-> "NONE"]
  /\ lastJoinConfig = NoConfig
  /\ rejoinTimers = <<>>
  /\ joins = [k \in JoinIds |-> IdleJoin]
  /\ leaving = FALSE
  /\ nextClient = 1
  /\ armed = 0
  /\ attempts = 0
  /\ failedRejoins = 0
  /\ clientChannel = [c \in ClientIds |-> NoConfig]
  /\ timerChannel = <<>>
  /\ slotChannel = [k \in JoinIds |-> NoConfig]

\* the parts added after the first five
InitLookup ==
  /\ lookup = IdleLookup

\* no catalogue documents besides ended sessions, no call
InitCatalogue ==
  /\ permissionDocs = [k \in Range(PermissionIds) |-> NoPermission]
  /\ assignmentDocs = [k \in Range(AssignmentIds) |-> NoAssignment]
  /\ streamSessions = [k \in Range(StreamSessionIds) |->
                         SessionDoc("pub1", FALSE, 0)]
  /\ avail = IdleAvail

\* every browser shows the application in one tab
InitTabs ==
  /\ tabs = [b \in Browsers |-> 1]

\* no timeout of the exception handler is pending
InitException ==
  /\ exceptionTimers = <<>>

\* readings of any target may follow; no heartbeat runs
InitReadings ==
  /\ steady = "none"
  /\ heartbeat = [b \in Browsers |-> NoHeartbeat]

InitExtra ==
  /\ InitLookup
  /\ InitCatalogue
  /\ cleanupRun = IdleCleanupRun
  /\ InitTabs
  /\ InitException
  /\ InitReadings

\* no sweep has run
InitCleanup ==
  /\ sweep = IdleSweep
  /\ activeChannels = <<>>
  /\ sweepAt = NoTimer
  /\ requests = {}

Init ==
  /\ now = StartNow
  /\ InitQuality
  /\ InitAuth("subscriber", TRUE)
  /\ InitRejoin
  /\ InitCleanup
  /\ InitExtra

InitSignIn ==
  /\ now = StartNow
  /\ InitQuality
  /\ \E role \in Roles, isActive \in BOOLEAN : InitAuth(role, isActive)
  /\ InitRejoin
  /\ InitCleanup
  /\ InitExtra

\* any permissions, assignments and sessions
InitStreams ==
  /\ now = StartNow
  /\ InitQuality
  /\ InitAuth("subscriber", TRUE)
  /\ InitRejoin
  /\ InitCleanup
  /\ InitLookup
  /\ permissionDocs \in [Range(PermissionIds) -> PermissionValues]
  /\ assignmentDocs \in [Range(AssignmentIds) -> AssignmentValues]
  /\ streamSessions \in [Range(StreamSessionIds) ->
                           {SessionDoc(p, a, StartNow) : p \in Publishers, a \in BOOLEAN}]
  /\ avail = IdleAvail
  /\ cleanupRun = IdleCleanupRun
  /\ InitTabs
  /\ InitException
  /\ InitReadings

\* sessions created around one hour before the script runs
SessionCreatedValues ==
  {SweepStartNow - ONE_HOUR - 100, SweepStartNow - ONE_HOUR,
   SweepStartNow - ONE_HOUR + 100}

InitForceClose ==
  /\ now = SweepStartNow
  /\ InitQuality
  /\ InitAuth("subscriber", TRUE)
  /\ InitRejoin
  /\ InitCleanup
  /\ InitLookup
  /\ permissionDocs = [k \in Range(PermissionIds) |-> NoPermission]
  /\ assignmentDocs = [k \in Range(AssignmentIds) |-> NoAssignment]
  /\ streamSessions \in [Range(StreamSessionIds) ->
                           {SessionDoc("pub1", a, c) :
                              a \in BOOLEAN, c \in SessionCreatedValues}]
  /\ avail = IdleAvail
  /\ cleanupRun = IdleCleanupRun
  /\ InitTabs
  /\ InitException
  /\ InitReadings

InitSweep ==
  /\ now = SweepStartNow
  /\ InitQuality
  /\ InitAuth("subscriber", TRUE)
  /\ InitRejoin
  /\ InitCleanup
  /\ InitExtra

NextQuality ==
  \/ enableAdvancedNetworkQualityMonitoring
  \/ \E r \in NetworkReadings, slow \in BOOLEAN :
       NetworkQuality(r.uplink, r.downlink, slow)
  \/ ResumeAfterUpdate
  \/ \E slow \in BOOLEAN : performProactiveNetworkCheck(slow)
  \/ \E q \in QUALITY_PRESETS, slow \in BOOLEAN : setManualQuality(q, slow)
  \/ \E s \in ConnectionStates : ConnectionStateChange(s)
  \/ Tick

SpecQuality == Init /\ [][NextQuality]_vars

\* readings that settle on one target, on a client that stays connected and
\* whose quality nobody sets by hand
SteadyReading ==
  \E r \in NetworkReadings, slow \in BOOLEAN :
    /\ Delivers(r.uplink, r.downlink)
    /\ NetworkQuality(r.uplink, r.downlink, slow)

ProactiveCheck == \E slow \in BOOLEAN : performProactiveNetworkCheck(slow)

NextSteady ==
  \/ enableAdvancedNetworkQualityMonitoring
  \/ SteadyReading
  \/ ResumeAfterUpdate
  \/ ProactiveCheck
  \/ \E q \in QUALITY_PRESETS : Settle(q)
  \/ Tick

\* readings keep arriving, the interval keeps firing, an awaited SDK call
\* completes and time passes
SpecSteady ==
  /\ Init
  /\ [][NextSteady]_vars
  /\ WF_vars(SteadyReading)
  /\ WF_vars(ProactiveCheck)
  /\ WF_vars(ResumeAfterUpdate)
  /\ WF_vars(Tick)

\* the steps of signIn
SignIn(b) ==
  \/ \E password \in Passwords : SignInStart(b, password)
  \/ CreateAuthUser(b)
  \/ ReadPermissions(b)
  \/ ReadZoomAssignments(b)
  \/ MigrateLinks(b)
  \/ SetProfile(b)
  \/ SetSession(b)
  \/ DeletePending(b)
  \/ FinishMigration(b)
  \/ AuthSignIn(b)
  \/ GetUserProfile(b)
  \/ WriteSession(b)
  \/ RejectSignOut(b)

\* the steps of signOut
SignOut(b) ==
  \/ SignOutStart(b)
  \/ GetUserProfileForSignOut(b)
  \/ ClearSession(b)
  \/ AuthSignOut(b)

\* sign-in together with the administrator's permission and assignment records
NextMigration ==
  \/ \E b \in Browsers : SignIn(b)
  \/ \E k \in LinkDocIds, d \in UserDocIds : createStreamPermission(k, d)
  \/ \E k \in LinkDocIds, d \in UserDocIds : createStreamAssignment(k, d)
  \/ \E k \in LinkDocIds, d \in UserDocIds : AddZoomPublisherAssignment(k, d)

SpecMigration == InitSignIn /\ [][NextMigration]_vars

\* the same with Firestore calls of the pending branch that reject
NextFaults ==
  \/ NextMigration
  \/ \E b \in Browsers : MigrationCallFails(b)

SpecFaults == InitSignIn /\ [][NextFaults]_vars

\* the user keeps signing in with the pending password: the steps of signIn
\* with that password
SignInAgain(b) ==
  \/ SignInStart(b, "pw")
  \/ CreateAuthUser(b)
  \/ ReadPermissions(b)
  \/ ReadZoomAssignments(b)
  \/ MigrateLinks(b)
  \/ SetProfile(b)
  \/ SetSession(b)
  \/ DeletePending(b)
  \/ FinishMigration(b)
  \/ AuthSignIn(b)
  \/ GetUserProfile(b)
  \/ WriteSession(b)
  \/ RejectSignOut(b)

NextRecovery ==
  \/ \E b \in Browsers : SignInAgain(b)
  \/ \E b \in Browsers : MigrationCallFails(b)
  \/ \E k \in LinkDocIds, d \in UserDocIds : createStreamPermission(k, d)
  \/ \E k \in LinkDocIds, d \in UserDocIds : AddZoomPublisherAssignment(k, d)

\* every call a browser has started settles, and a browser whose call has
\* returned calls signIn again; a Firestore call need not reject
SpecRecovery ==
  /\ InitSignIn
  /\ [][NextRecovery]_vars
  /\ \A b \in Browsers : WF_vars(SignInAgain(b))

\* a first sign-in that migrates the pending user, and the profile look-up
\* of the auth-state listener next to it
NextLookup ==
  \/ \E password \in Passwords : SignInStart("b1", password)
  \/ CreateAuthUser("b1")
  \/ ReadPermissions("b1")
  \/ ReadZoomAssignments("b1")
  \/ MigrateLinks("b1")
  \/ SetProfile("b1")
  \/ SetSession("b1")
  \/ DeletePending("b1")
  \/ FinishMigration("b1")
  \/ \E uid \in AuthUids : getUserProfile(uid)
  \/ \E failed \in BOOLEAN : LookupRead(failed)
  \/ LookupRetry
  \/ TickLookup

SpecLookup == InitSignIn /\ [][NextLookup]_vars

\* a subscriber loads its streams while permissions, assignments and
\* sessions are switched off and on
NextStreams ==
  \/ getAvailableStreams("sub1")
  \/ PermissionsRead
  \/ AssignmentsRead
  \/ StreamsRead
  \/ CatalogueReadFails
  \/ \E k \in Range(PermissionIds), isActive \in BOOLEAN :
       updateStreamPermission(k, isActive)
  \/ \E k \in Range(AssignmentIds), isActive \in BOOLEAN :
       updateStreamAssignment(k, isActive)
  \/ \E k \in Range(StreamSessionIds) : endStreamSession(k)

SpecStreams == InitStreams /\ [][NextStreams]_vars

\* the cleanup script runs while publishers end their sessions
NextForceClose ==
  \/ runCleanup
  \/ ActiveSessionsRead
  \/ ActiveSessionsReadFails
  \/ \E success \in BOOLEAN : forceCloseStreamSession(success)
  \/ ForceCloseDelayOver
  \/ \E k \in Range(StreamSessionIds) : endStreamSession(k)
  \/ TickForceClose

SpecForceClose == InitForceClose /\ [][NextForceClose]_vars

\* sign-in and sign-out over time
NextSession ==
  \/ \E b \in Browsers : SignIn(b)
  \/ \E b \in Browsers : SignOut(b)
  \/ TickLong

SpecSession == InitSignIn /\ [][NextSession]_vars

\* signIn, signOut, tabs and logoutAllUsers, one call at a time
NextTabs ==
  \/ \E b \in Browsers : (pc[b] = "idle" => Quiet) /\ SignIn(b)
  \/ \E b \in Browsers : (pc[b] = "idle" => Quiet) /\ SignOut(b)
  \/ \E b \in Browsers : OpenTab(b)
  \/ \E b \in Browsers, sent \in BOOLEAN : CloseTab(b, sent)
  \/ logoutAllUsers
  \/ TickLong

SpecTabs == InitSignIn /\ [][NextTabs]_vars

\* signIn in open pages, one call at a time, with the heartbeat, tabs that
\* open and close, and browsers that go away; what the user does next comes
\* after the effects of the last render
NextHeartbeat ==
  \/ \E b \in Browsers : PageOpen(b) /\ (pc[b] = "idle" => Settled) /\ SignInAgain(b)
  \/ \E b \in Browsers : PageOpen(b) /\ Settled /\ OpenTab(b)
  \/ \E b \in Browsers, sent \in BOOLEAN : Settled /\ CloseTab(b, sent)
  \/ \E b \in Browsers : StartHeartbeat(b)
  \/ \E b \in Browsers : StopHeartbeat(b)
  \/ \E b \in Browsers : updateActivity(b)
  \/ \E b \in Browsers : BrowserGone(b)
  \/ TickHeartbeat

SpecHeartbeat == Init /\ [][NextHeartbeat]_vars

\* join, leave, disconnects and rejoins
NextRejoin ==
  \/ \E config \in Channels : join(config)
  \/ \E k \in JoinIds : FetchTokenResolved(k)
  \/ \E k \in JoinIds : ClientJoinResolved(k)
  \/ \E k \in JoinIds : JoinFailed(k)
  \/ \E c \in ClientIds : Disconnected(c)
  \/ \E emits \in BOOLEAN : RejoinTimerFires(emits)
  \/ \E k \in JoinIds : RejoinJoin(k)
  \/ \E emits \in BOOLEAN : leave(emits)
  \/ LeaveFinally
  \/ TickRejoin

SpecRejoin == Init /\ [][NextRejoin]_vars

\* the viewer switches streams: it calls join only after leave() has run to
\* its end and while no other join is under way
NoClientHeld ==
  /\ client = NoClient
  /\ ~leaving
  /\ \A k \in JoinIds : joins[k].pc = "idle"

NextSwitch ==
  \/ \E config \in Channels : NoClientHeld /\ join(config)
  \/ \E k \in JoinIds : FetchTokenResolved(k)
  \/ \E k \in JoinIds : ClientJoinResolved(k)
  \/ \E k \in JoinIds : JoinFailed(k)
  \/ \E c \in ClientIds : Disconnected(c)
  \/ \E emits \in BOOLEAN : RejoinTimerFires(emits)
  \/ \E k \in JoinIds : RejoinJoin(k)
  \/ \E emits \in BOOLEAN : leave(emits)
  \/ LeaveFinally
  \/ TickRejoin

SpecSwitch == Init /\ [][NextSwitch]_vars

\* join, leave, disconnects, rejoins and exception events
NextException ==
  \/ \E config \in Channels : join(config)
  \/ \E k \in JoinIds : FetchTokenResolved(k)
  \/ \E k \in JoinIds : ClientJoinResolved(k)
  \/ \E k \in JoinIds : JoinFailed(k)
  \/ \E c \in ClientIds : Disconnected(c)
  \/ \E emits \in BOOLEAN : RejoinTimerFires(emits)
  \/ \E k \in JoinIds : RejoinJoin(k)
  \/ \E emits \in BOOLEAN : leave(emits)
  \/ LeaveFinally
  \/ \E c \in ClientIds : Exception17(c)
  \/ ExceptionTimerFires
  \/ TickException

SpecException == Init /\ [][NextException]_vars

\* the cleanup sweep of the route and of the script
NextCleanup ==
  \/ \E kind \in SweepKinds : SweepStart(kind)
  \/ ChannelsFetched
  \/ ChannelsFetchFailed
  \/ RequestChannelUsers
  \/ UsersListed
  \/ KickUser
  \/ ListingDone
  \/ KickActiveUser
  \/ TickSweep

SpecCleanup == InitSweep /\ [][NextCleanup]_vars

\* ---------------------------------------------------------------------------
\* Properties of the adaptive quality logic
\* ---------------------------------------------------------------------------

\* C1: a network-quality reading moves currentQuality to a better preset only
\* when it is the third of three consecutive readings whose target was better
\* than the current preset (favourableRun counts the run before this reading;
\* a reading with an equal or worse target, or a change of preset, restarts it).
C1_UpgradeOnlyAfterThreeConsecutive ==
  [][ (/\ lastOp'.kind = "reading"
       /\ getQualityLevel(currentQuality') < getQualityLevel(currentQuality))
      => favourableRun >= REQUIRED_GOOD_READINGS_FOR_UPGRADE - 1 ]_vars

C3_DowngradeAppliesImmediately ==
  (/\ lastOp.kind = "reading"
   /\ getQualityLevel(lastOp.target) > getQualityLevel(lastOp.from))
  => currentQuality = lastOp.target

\* ---------------------------------------------------------------------------
\* Properties of sign-in and pending-user migration
\* ---------------------------------------------------------------------------
MigrationReturns(b) == pc[b] = "delay" /\ pc'[b] = "idle"

\* C4: when signIn returns from the pending-user branch, the pending document
\* is gone and users/<new uid> exists with the pending document's role,
\* displayName, createdAt and isActive, isPending false and pendingPassword null.
C4_MigrationReplacesPendingDocument ==
  [][ \A b \in Browsers : MigrationReturns(b) =>
        /\ result'[b].status = "ok"
        /\ ~users'[loc[b].oldPendingId].exists
        /\ users'[loc[b].uid].exists
        /\ users'[loc[b].uid].role = loc[b].pendingUserData.role
        /\ users'[loc[b].uid].displayName = loc[b].pendingUserData.displayName
        /\ users'[loc[b].uid].createdAt = loc[b].pendingUserData.createdAt
        /\ users'[loc[b].uid].isActive = loc[b].pendingUserData.isActive
        /\ users'[loc[b].uid].isPending = FALSE
        /\ users'[loc[b].uid].pendingPassword = NoPassword ]_vars

\* C4 witness: a migration has returned successfully for an account the
\* administrator had deactivated while it was pending.
C4_Witness ==
  \E b \in Browsers :
    /\ result[b] = [status |-> "ok", path |-> "migrate"]
    /\ ~users[PendingId].exists
    /\ currentUser[b] # NoUser
    /\ users[currentUser[b]].exists
    /\ ~users[currentUser[b]].isActive

\* C5: when signIn returns from the pending-user branch, no document of
\* streamPermissions, streamAssignments or zoomPublisherAssignments has the
\* old pending id as subscriberId.
C5_NoReferenceToPendingIdRemains ==
  [][ \A b \in Browsers : MigrationReturns(b) =>
        \A k \in LinkDocIds :
          /\ streamPermissions'[k] # loc[b].oldPendingId
          /\ streamAssignments'[k] # loc[b].oldPendingId
          /\ zoomPublisherAssignments'[k] # loc[b].oldPendingId ]_vars

\* C6: once the migration has deleted the pending document, every signIn that
\* starts takes the normal path, and no step creates an auth account, creates
\* or deletes a users document, or (as a step of signIn) touches a permission
\* or assignment record.
C6_MigrationHappensOnce ==
  [][ ~users[PendingId].exists =>
        /\ \A b \in Browsers :
             (pc[b] = "idle" /\ pc'[b] # "idle") => pc'[b] = "authSignIn"
        /\ authAccounts' = authAccounts
        /\ \A d \in UserDocIds : users'[d].exists = users[d].exists
        /\ (pc' # pc => UNCHANGED <<streamPermissions, streamAssignments,
                                     zoomPublisherAssignments>>) ]_vars

\* C6 witness: after the migration a later signIn has returned successfully
\* on the normal path.
C6_Witness ==
  /\ ~users[PendingId].exists
  /\ \E b \in Browsers :
       result[b].status = "ok" /\ result[b].path \in {"normal", "same"}

\* the subscriber's document holds a session and browser b has no matching token
HeldByOther(b) ==
  /\ users[loc[b].uid].exists
  /\ users[loc[b].uid].role = "subscriber"
  /\ users[loc[b].uid].sessionId # NoSession
  /\ localSessionId[b] # users[loc[b].uid].sessionId

\* signIn of browser b acts on the profile it has just read
Decides(b) == pc[b] = "getProfile" /\ loc[b].then = "session" /\ pc'[b] # pc[b]

\* C7: when signIn reads a subscriber profile with a session held elsewhere
\* and a lastLoginAt less than five minutes old, it goes on to sign the auth
\* session out and returns an error, and that leaves the users documents as
\* they are.
C7_SecondBrowserRejected ==
  [][ \A b \in Browsers :
        /\ (/\ Decides(b)
            /\ HeldByOther(b)
            /\ users[loc[b].uid].lastLoginAt # NoTime
            /\ now - users[loc[b].uid].lastLoginAt < SESSION_TIMEOUT)
           => (pc'[b] = "rejectSignOut" /\ users' = users)
        /\ (pc[b] = "rejectSignOut" /\ pc'[b] # pc[b])
           => /\ result'[b].status = "error"
              /\ currentUser'[b] = NoUser
              /\ users' = users ]_vars

\* C7 witness: a signIn was rejected while the other browser's session was
\* less than five minutes old.
C7_Witness ==
  \E b \in Browsers :
    /\ result[b] = [status |-> "error", path |-> "reject"]
    /\ currentUser[b] = NoUser
    /\ \E d \in UserDocIds :
         /\ users[d].exists
         /\ users[d].sessionId # NoSession
         /\ users[d].sessionId # localSessionId[b]
         /\ now - users[d].lastLoginAt < SESSION_TIMEOUT

\* C8: with a session stored in the document, a browser without the matching
\* token gets in exactly when lastLoginAt is missing or more than five minutes
\* old, and then one fresh sessionId ends up in both the document and its
\* localStorage; a browser with the matching token always gets in and only
\* lastLoginAt is written.
C8_SessionTakeover ==
  [][ \A b \in Browsers :
        /\ (Decides(b) /\ HeldByOther(b))
           => IF \/ users[loc[b].uid].lastLoginAt = NoTime
                 \/ now - users[loc[b].uid].lastLoginAt > SESSION_TIMEOUT
              THEN pc'[b] = "writeSession" /\ loc'[b].branch = "expired"
              ELSE pc'[b] = "rejectSignOut"
        /\ (/\ Decides(b)
            /\ users[loc[b].uid].exists
            /\ users[loc[b].uid].role = "subscriber"
            /\ users[loc[b].uid].sessionId # NoSession
            /\ localSessionId[b] = users[loc[b].uid].sessionId)
           => pc'[b] = "writeSession" /\ loc'[b].branch = "same"
        /\ (pc[b] = "writeSession" /\ loc[b].branch = "expired" /\ pc'[b] # pc[b])
           => /\ result'[b].status = "ok"
              /\ users'[loc[b].uid].sessionId # NoSession
              /\ users'[loc[b].uid].sessionId = localSessionId'[b]
              /\ users'[loc[b].uid].sessionId # users[loc[b].uid].sessionId
              /\ \A c \in Browsers :
                   localSessionId[c] # users'[loc[b].uid].sessionId
              /\ users'[loc[b].uid].lastLoginAt = now
        /\ (pc[b] = "writeSession" /\ loc[b].branch = "same" /\ pc'[b] # pc[b])
           => /\ result'[b].status = "ok"
              /\ users' = [users EXCEPT ![loc[b].uid].lastLoginAt = now]
              /\ localSessionId' = localSessionId ]_vars

\* C8 witness: one browser signed in again with its matching token, and
\* another took over a session that was more than five minutes old.
C8_Witness ==
  \E b1, b2 \in Browsers :
    /\ result[b1] = [status |-> "ok", path |-> "same"]
    /\ result[b2] = [status |-> "ok", path |-> "expired"]
    /\ localSessionId[b2] # NoSession
    /\ \E d \in UserDocIds : users[d].exists /\ users[d].sessionId = localSessionId[b2]

C10_SweepTargetsOnlyLingeringChannels ==
  \A r \in requests :
    /\ r.channelName \in DOMAIN activeChannels
    /\ sweepAt - activeChannels[r.channelName].created * 1000 > 60 * 60 * 1000
    /\ activeChannels[r.channelName].userCount > 0

\* C10 witness: a finished sweep listed and kicked the users of one channel
\* and sent nothing for a channel with users that was not an hour old.
C10_Witness ==
  /\ sweep.pc = "idle"
  /\ \E r \in requests : r.op = "users"
  /\ \E r \in requests : r.op = "kick"
  /\ \E i \in DOMAIN activeChannels :
       /\ activeChannels[i].userCount > 0
       /\ sweepAt - activeChannels[i].created * 1000 <= 60 * 60 * 1000
       /\ \A r \in requests : r.channelName # i

\* ---------------------------------------------------------------------------
\* Concurrent sign-in, failures and look-ups
\* ---------------------------------------------------------------------------
\* where a signIn stands between createUserWithEmailAndPassword and its return
MigratingPcs == {"readPermissions", "readZoom", "migrateLinks", "setProfile",
                 "setSession", "deletePending", "delay"}

\* C11: there is never more than one auth account or more than one users
\* document with an auth uid, an auth account is only created while there is
\* none, and while one signIn is between the creation of the auth account and
\* its return no other signIn is.
C11_AtMostOneMigration ==
  [][ /\ Cardinality(authAccounts') <= 1
      /\ Cardinality({d \in AuthUids : users'[d].exists}) <= 1
      /\ authAccounts' # authAccounts => authAccounts = {}
      /\ \A b, c \in Browsers :
           (pc'[b] \in MigratingPcs /\ pc'[c] \in MigratingPcs) => b = c ]_vars

\* C11 witness: two overlapping signIn calls had both read the pending
\* document; one migrated it, the other returned an error.
C11_Witness ==
  \E b, c \in Browsers :
    /\ result[b] = [status |-> "ok", path |-> "migrate"]
    /\ result[c] = [status |-> "error", path |-> "migrate"]
    /\ Cardinality(authAccounts) = 1

\* C12: when a Firestore call of the pending branch rejects after the auth
\* account was created, signIn returns an error and writes nothing to undo
\* what it did: the auth account stays, no users document changes, no
\* subscriberId goes back to the pending id, and the pending document is still
\* there with isPending true.
C12_NoRollback ==
  [][ \A b \in Browsers :
        (pc[b] \in MigratingPcs /\ pc'[b] = "idle" /\ result'[b].status = "error")
          => /\ users' = users
             /\ authAccounts' = authAccounts
             /\ \E a \in authAccounts' : a.uid = loc[b].uid
             /\ users'[loc[b].oldPendingId].exists
             /\ users'[loc[b].oldPendingId].isPending
             /\ streamAssignments' = streamAssignments
             /\ \A k \in LinkDocIds :
                  /\ streamPermissions[k] = loc[b].uid
                       => streamPermissions'[k] = loc[b].uid
                  /\ zoomPublisherAssignments[k] = loc[b].uid
                       => zoomPublisherAssignments'[k] = loc[b].uid ]_vars

\* C12 witness: a signIn ended with an error after it had rewritten a
\* permission and written the new users document; both are still there, next
\* to the pending document.
C12_Witness ==
  \E b \in Browsers :
    /\ result[b] = [status |-> "error", path |-> "migrateFailed"]
    /\ users[PendingId].exists
    /\ users[PendingId].isPending
    /\ \E a \in authAccounts :
         /\ users[a.uid].exists
         /\ \E k \in LinkDocIds : streamPermissions[k] = a.uid

\* the password is neither a pending user's stored password nor the
\* password of an auth account
Mismatch(password) ==
  /\ \A d \in UserDocIds :
       (users[d].exists /\ users[d].isPending) => users[d].pendingPassword # password
  /\ \A a \in authAccounts : a.password # password

\* C13: a signIn with a password that matches neither credential goes
\* straight to signInWithEmailAndPassword, returns an error when that call
\* rejects, and none of its steps changes a users, streamPermissions or
\* zoomPublisherAssignments document or the auth accounts.
C13_WrongPasswordChangesNothing ==
  [][ \A b \in Browsers :
        /\ (pc[b] = "idle" /\ pc'[b] # "idle" /\ Mismatch(loc'[b].password))
             => /\ pc'[b] = "authSignIn"
                /\ UNCHANGED <<users, streamPermissions, zoomPublisherAssignments,
                               authAccounts>>
        /\ (pc[b] = "authSignIn" /\ pc'[b] # pc[b] /\ Mismatch(loc[b].password))
             => /\ pc'[b] = "idle"
                /\ result'[b].status = "error"
                /\ currentUser'[b] = currentUser[b]
                /\ UNCHANGED <<users, streamPermissions, zoomPublisherAssignments,
                               authAccounts>> ]_vars

\* C13 witness: after the migration, with a permission in place, a signIn
\* with a wrong password has returned an error.
C13_Witness ==
  \E b \in Browsers :
    /\ result[b] = [status |-> "error", path |-> "normal"]
    /\ authAccounts # {}
    /\ ~users[PendingId].exists
    /\ \E k \in LinkDocIds : streamPermissions[k] # NoLink

\* C14: a getUserProfile call makes at most four reads, each read after the
\* first at least 300 ms after the one before; a read that finds the document
\* ends the call with the profile; and the call returns null only with its
\* fourth read.
C14_AtMostFourReads ==
  [][ /\ lookup'.reads <= 4
      /\ (lookup'.reads = lookup.reads + 1 /\ lookup.reads >= 1)
           => now - lookup.lastReadAt >= 300
      /\ (lookup.pc = "read" /\ lookup'.pc # "read")
           => /\ lookup'.reads = lookup.reads + 1
              /\ lookup'.returned = "profile" => users[lookup.uid].exists
              /\ lookup'.pc = "wait" => lookup.reads < 3
              /\ lookup'.returned = "null" => lookup'.reads = 4
      /\ (lookup.pc = "wait" /\ lookup'.pc # "wait") => lookup'.pc = "read" ]_vars

\* C14 witness: a call returned null after a missing document and read
\* errors, and the clock is at least 900 ms past the start.
C14_Witness ==
  /\ lookup.pc = "done"
  /\ lookup.returned = "null"
  /\ lookup.reads = 4
  /\ users[lookup.uid].exists
  /\ now >= StartNow + 3 * 300

\* an entry of the result is backed by an active permission of the subscriber
\* read by the call, with the session of that permission's publisher attached
BackedByPermission(e) ==
  \E k \in Range(PermissionIds) :
    /\ e.id = k
    /\ avail.permissionsAtRead[k].exists
    /\ avail.permissionsAtRead[k].subscriberId = avail.subscriberId
    /\ avail.permissionsAtRead[k].isActive
    /\ streamSessions[e.streamSession.id].publisherId
         = avail.permissionsAtRead[k].publisherId

\* an entry of the result is backed by an active assignment of the subscriber
\* read by the call, with the assigned session attached
BackedByAssignment(e) ==
  \E k \in Range(AssignmentIds) :
    /\ e.id = k
    /\ avail.assignmentsAtRead[k].exists
    /\ avail.assignmentsAtRead[k].subscriberId = avail.subscriberId
    /\ avail.assignmentsAtRead[k].isActive
    /\ e.streamSession.id = avail.assignmentsAtRead[k].streamSessionId

\* C15: every entry getAvailableStreams returns is backed by a permission or
\* an assignment document of the subscriber that was active when the call
\* queried it, and its session is a streamSessions document that is active
\* when the call reads the sessions and returns.
C15_OnlyActiveEntries ==
  [][ (avail.pc = "streams" /\ avail'.pc = "done")
        => \A i \in DOMAIN avail'.result :
             LET e == avail'.result[i]
             IN /\ e.streamSession.id \in Range(StreamSessionIds)
                /\ streamSessions[e.streamSession.id].isActive
                /\ BackedByPermission(e) \/ BackedByAssignment(e) ]_vars

\* C15 witness: a call returned an entry while an inactive permission of the
\* subscriber and an ended session were in the database.
C15_Witness ==
  /\ avail.pc = "done"
  /\ Len(avail.result) = 1
  /\ avail.result[1].id = "asg1"
  /\ permissionDocs["perm1"].exists
  /\ permissionDocs["perm1"].subscriberId = "sub1"
  /\ ~avail.permissionsAtRead["perm1"].isActive
  /\ \E k \in Range(StreamSessionIds) : ~streamSessions[k].isActive

\* the session was active and more than one hour old when the script read
LingeringAtRead(run, k) ==
  /\ run.sessionsAtRead[k].isActive
  /\ run.readAt - run.sessionsAtRead[k].createdAt > 60 * 60 * 1000

SignedInAs(b, uid) == uid # NoUser /\ currentUser[b] = uid /\ pc[b] = "idle"

\* C17: a signIn that starts a session for a subscriber while another browser
\* is signed in as that subscriber succeeds only if the document's lastLoginAt
\* is more than five minutes old.
C17_OneBrowserPerSubscriber ==
  [][ \A b \in Browsers :
        (/\ pc[b] = "writeSession" /\ pc'[b] = "idle"
         /\ result'[b].status = "ok"
         /\ result'[b].path # "same"
         /\ \E c \in Browsers \ {b} : SignedInAs(c, currentUser[b]))
          => /\ users[currentUser[b]].lastLoginAt # NoTime
             /\ now - users[currentUser[b]].lastLoginAt > 5 * 60 * 1000 ]_vars

\* signIn of browser b returned the user of a subscriber account
ReturnedSignedIn(b) ==
  /\ pc[b] = "idle"
  /\ result[b].status = "ok"
  /\ currentUser[b] # NoUser
  /\ users[currentUser[b]].exists
  /\ users[currentUser[b]].role = "subscriber"

\* C18: with no sign-out and no time passing, two browsers never both have a
\* signIn that returned the user of the same subscriber, each with a sessionId
\* in its localStorage.
C18_ConcurrentSignInOneWinner ==
  \A b, c \in Browsers :
    (/\ b # c
     /\ ReturnedSignedIn(b)
     /\ ReturnedSignedIn(c)
     /\ currentUser[b] = currentUser[c])
      => (localSessionId[b] = NoSession \/ localSessionId[c] = NoSession)

\* C19: the callback of a timeout armed by the DISCONNECTED event of one
\* channel does not change the state of a client of another channel, and does
\* not go on to join another channel.
C19_TimerKeepsToItsChannel ==
  [][ /\ (rejoinTimers # <<>> /\ attempts' = attempts + 1
            /\ client # NoClient
            /\ clientChannel[client] # Head(timerChannel))
           => clientState'[client] = clientState[client]
      /\ \A k \in JoinIds :
           (joins[k].pc = "afterLeave" /\ joins'[k].pc = "fetchToken")
             => joins'[k].config = slotChannel[k] ]_vars

\* C20: when join creates a client, no client created earlier is still
\* connecting or connected.
C20_NoClientAbandoned ==
  [][ nextClient' = nextClient + 1
        => \A c \in ClientIds : clientState[c] \notin {"CONNECTING", "CONNECTED"} ]_vars

\* ---------------------------------------------------------------------------
\* Order of the migration, recovery, upgrades over time, the heartbeat
\* ---------------------------------------------------------------------------

\* C21: when a signIn deletes the pending document, every streamPermissions and
\* zoomPublisherAssignments document its two queries returned carries the new
\* uid, the users document of the new uid exists and, for a subscriber, a
\* sessionId is stored in that document and in the browser's localStorage; and
\* once an auth account exists, the pending document or the document of an
\* account's uid exists.
C21_PendingDeletedLast ==
  [][ /\ \A b \in Browsers :
           (users[PendingId].exists /\ ~users'[PendingId].exists
              /\ pc[b] = "deletePending" /\ pc'[b] # "deletePending")
             => /\ \A k \in loc[b].permissions : streamPermissions[k] = loc[b].uid
                /\ \A k \in loc[b].zoom : zoomPublisherAssignments[k] = loc[b].uid
                /\ users[loc[b].uid].exists
                /\ ~users[loc[b].uid].isPending
                /\ loc[b].pendingUserData.role = "subscriber"
                     => /\ users[loc[b].uid].sessionId # NoSession
                        /\ localSessionId[b] # NoSession
      /\ (users[PendingId].exists /\ ~users'[PendingId].exists)
           => \E b \in Browsers : pc[b] = "deletePending" /\ pc'[b] = "delay"
      /\ authAccounts' # {}
           => \/ users'[PendingId].exists
              \/ \E a \in authAccounts' : users'[a.uid].exists ]_vars

\* C21 witness: a subscriber's migration has just deleted the pending document
\* after rewriting a permission and a zoom assignment, while another signIn of
\* the pending branch had failed.
C21_Witness ==
  \E b \in Browsers :
    /\ pc[b] = "delay"
    /\ ~users[PendingId].exists
    /\ loc[b].pendingUserData.role = "subscriber"
    /\ loc[b].permissions # {}
    /\ loc[b].zoom # {}
    /\ users[loc[b].uid].sessionId # NoSession
    /\ \E c \in Browsers \ {b} : result[c].status = "error"

\* a signIn has returned the user and no pending document is left
MigrationCompleted ==
  /\ ~users[PendingId].exists
  /\ \E b \in Browsers : pc[b] = "idle" /\ result[b].status = "ok"

\* C22: after a signIn of the pending branch has failed behind the creation
\* of the auth account, signIn calls with the pending password lead to a call
\* that returns the user with the pending document deleted.
C22_FailedMigrationRecovers ==
  (\E b \in Browsers : result[b] = [status |-> "error", path |-> "migrateFailed"])
    ~> MigrationCompleted

\* C23: once every reading yields the same target, better than the current
\* preset, currentQuality eventually equals that target.
C23_UpgradeNotPostponedForever ==
  (steady # "none") ~> (currentQuality = steady)

\* C23 witness: with the readings settled on a better target, the third
\* favourable reading was skipped in the cooldown and the counter is back at 0.
C23_Witness ==
  /\ steady # "none"
  /\ lastOp = [kind |-> "reading", from |-> currentQuality, target |-> steady,
               applied |-> FALSE]
  /\ getQualityLevel(steady) < getQualityLevel(currentQuality)
  /\ favourableRun >= 3
  /\ consecutiveGoodReadings = 0
  /\ InCooldown

\* the step is a run of performProactiveNetworkCheck: the interval is re-armed
IsProactiveCheck ==
  /\ networkQualityInterval # NoTimer
  /\ networkQualityInterval' # networkQualityInterval

\* C24: a run of the 5 s proactive check never raises consecutiveGoodReadings,
\* and a reading or a proactive check moves currentQuality to a better preset
\* only when at least three readings, the current one included, have gone
\* into the counter since it was last 0.
C24_ReadingCountedOnce ==
  [][ /\ IsProactiveCheck => consecutiveGoodReadings' <= consecutiveGoodReadings
      /\ (/\ getQualityLevel(currentQuality') < getQualityLevel(currentQuality)
          /\ lastOp'.kind # "manual")
           => IF IsProactiveCheck
              THEN countedReadings >= 3
              ELSE countedReadings + 1 >= 3 ]_vars

\* browser c is signed in as uid with its page open and its heartbeat running
RunsHeartbeatAs(c, uid) ==
  /\ uid # NoUser
  /\ PageOpen(c)
  /\ pc[c] = "idle"
  /\ result[c].status = "ok"
  /\ currentUser[c] = uid
  /\ heartbeat[c].due # NoTimer

\* the lastLoginAt of every account some browser runs its heartbeat for is at
\* most five minutes old
HeartbeatFresh ==
  \A c \in Browsers :
    RunsHeartbeatAs(c, currentUser[c])
      => /\ users[currentUser[c]].lastLoginAt # NoTime
         /\ now - users[currentUser[c]].lastLoginAt <= SESSION_TIMEOUT

\* the signIn of browser b takes its branch on the profile it read
TakesBranch(b) ==
  /\ pc[b] = "getProfile"
  /\ loc[b].then = "session"
  /\ pc'[b] # "getProfile"

\* for the account of uid a heartbeat runs, or one stopped at most five
\* minutes ago
HeartbeatWithin(uid) ==
  \E c \in Browsers :
    /\ heartbeat[c].uid = uid
    /\ \/ heartbeat[c].due # NoTimer
       \/ /\ heartbeat[c].stoppedAt # NoTime
          /\ now - heartbeat[c].stoppedAt <= SESSION_TIMEOUT

\* C25: while a browser runs its heartbeat for a subscriber, lastLoginAt is at
\* most five minutes old and the signIn of another browser for that subscriber
\* is rejected; and a signIn is rejected only while a heartbeat runs for the
\* account or stopped at most five minutes ago.
C25_HeartbeatKeepsOthersOut ==
  [][ /\ HeartbeatFresh'
      /\ \A b \in Browsers :
           /\ (TakesBranch(b)
                 /\ \E c \in Browsers \ {b} : RunsHeartbeatAs(c, loc[b].uid))
                => pc'[b] = "rejectSignOut"
           /\ (TakesBranch(b) /\ pc'[b] = "rejectSignOut")
                => HeartbeatWithin(loc[b].uid) ]_vars

====
